---- MODULE Spec2Model ----
(***************************************************************************)
(* Model of formation-docs (docs.ts): the normalisation of JSDoc records   *)
(* into content trees (getDocs, getTypeContent, getContent), the HTML      *)
(* walker (getHtml) with its heading ids and heading index, the Markdown    *)
(* walker (getMarkdown), and the                                           *)
(* navigation assembly of renderHtmlDocs.                                  *)
(*                                                                         *)
(* Strings whose characters the code inspects (names, heading texts, type  *)
(* expressions, ids, links, slugs) are sequences of one-character strings. *)
(* A content node { content, tag?, link? } is the record                   *)
(*   [tag, kind, str, arr, link]                                           *)
(* with kind "str" (content is the string str) or "arr" (content is the    *)
(* array arr); tag "" and link <<>> stand for an absent tag and link.      *)
(***************************************************************************)
EXTENDS Naturals, Sequences, FiniteSets, TLC

VARIABLES
  hPage,      \* getHtml: the top-level nodes of data.content walked so far
  hFilter,    \* getHtml: which filterAttr the caller supplied
  hSt,        \* getHtml: title, headings, _output, _ids (and the filterAttr calls)
  hDone,      \* getHtml: the outermost call has returned
  mOutput,    \* getMarkdown: _output.ref after the same nodes
  nDocs,      \* renderHtmlDocs: docsEntries, the [dir, content] pairs getDocs returned
  nPc,        \* renderHtmlDocs: "pages", "assemble", "write" or "done"
  nIdx,       \* renderHtmlDocs: entries rendered / items written so far
  nItems,     \* renderHtmlDocs: items, in insertion order
  navigationSlugs,
  navigationMap,
  navigation,
  nPassed,    \* renderHtmlDocs: the navigation handed to filterOutput, per written page
  args,       \* getDocs: url, outDir and whether index is given
  renderType, \* renderType.ref, the property of the object all calls share
  callType,   \* the render call that started getDocs: "markdown" or "html"
  dPc,        \* getDocs: "files", "units", "done" or "error" (the promise rejected)
  dFiles,     \* getDocs: the source files explained so far
  jsdocItems,
  sources,
  exports,
  docTypes,
  docVars,
  docFunctions,
  docClasses,
  unit,       \* getDocs: the variables of the loop over sources for one directory
  indexMap,
  result,
  dOverflow   \* getTypeContent was entered more than MaxDepth calls deep

hvars == <<hPage, hFilter, hSt, hDone, mOutput>>
nvars == <<nDocs, nPc, nIdx, nItems, navigationSlugs, navigationMap, navigation, nPassed>>

dvars == <<args, renderType, callType, dPc, dFiles, jsdocItems, sources, exports, docTypes, docVars,
           docFunctions, docClasses, unit, indexMap, result, dOverflow>>

vars == <<hvars, nvars, dvars>>

(***************************************************************************)
(* Bounds of the model.                                                    *)
(***************************************************************************)
MaxNodes == 3       \* top-level nodes of one walked page
MaxSuffix == 9      \* largest N looked at when a slug is compared with base-N
MaxDirs == 3        \* output units handed to renderHtmlDocs
MaxDepth == 5       \* nested getTypeContent calls followed before giving up
MaxFiles == 2       \* source files of one getDocs call
MaxAwaits == 17     \* awaits of one turn of the loop over the records of a directory

(***************************************************************************)
(* Characters and strings.                                                 *)
(***************************************************************************)
UpperChars == <<"A","B","C","D","E","F","G","H","I","J","K","L","M",
                "N","O","P","Q","R","S","T","U","V","W","X","Y","Z">>
LowerChars == <<"a","b","c","d","e","f","g","h","i","j","k","l","m",
                "n","o","p","q","r","s","t","u","v","w","x","y","z">>
DigitChars == <<"0","1","2","3","4","5","6","7","8","9">>

Range(s) == { s[i] : i \in DOMAIN s }

IsUpper(c) == c \in Range(UpperChars)
IsLetter(c) == c \in Range(UpperChars) \cup Range(LowerChars)
IsDigit(c) == c \in Range(DigitChars)
\* \w of a JavaScript regular expression
IsWord(c) == IsLetter(c) \/ IsDigit(c) \/ c = "_"
\* \s of a JavaScript regular expression (the characters the model uses)
IsSpace(c) == c \in {" ", "\n", "\t"}

\* String.prototype.toLowerCase on one character
LowerChar(c) ==
  IF IsUpper(c)
    THEN LowerChars[CHOOSE i \in DOMAIN UpperChars : UpperChars[i] = c]
    ELSE c

\* String(n) for a natural number
RECURSIVE ToStr(_)
ToStr(n) ==
  IF n < 10 THEN <<DigitChars[n + 1]>>
  ELSE ToStr(n \div 10) \o <<DigitChars[(n % 10) + 1]>>

\* String.prototype.startsWith
StartsWith(s, p) ==
  /\ Len(p) <= Len(s)
  /\ SubSeq(s, 1, Len(p)) = p

RECURSIVE Flatten(_)
Flatten(ss) == IF ss = <<>> THEN <<>> ELSE Head(ss) \o Flatten(Tail(ss))

RECURSIVE Trim(_)
Trim(s) ==
  IF s = <<>> THEN s
  ELSE IF IsSpace(Head(s)) THEN Trim(Tail(s))
  ELSE IF IsSpace(s[Len(s)]) THEN Trim(SubSeq(s, 1, Len(s) - 1))
  ELSE s

\* .replace(/\s+/g, '-'): every maximal run of whitespace becomes one hyphen
RECURSIVE SpacesToHyphen(_)
SpacesToHyphen(s) ==
  IF s = <<>> THEN <<>>
  ELSE IF IsSpace(Head(s))
    THEN IF Len(s) > 1 /\ IsSpace(s[2])
           THEN SpacesToHyphen(Tail(s))
           ELSE <<"-">> \o SpacesToHyphen(Tail(s))
    ELSE <<Head(s)>> \o SpacesToHyphen(Tail(s))

\* getId: trim, strip [^\w\s] and "_", whitespace runs to "-", lower case
getId(name) ==
  LET stripped == SelectSeq(Trim(name), LAMBDA c : (IsWord(c) \/ IsSpace(c)) /\ c # "_")
      hyphened == SpacesToHyphen(stripped)
  IN  [i \in DOMAIN hyphened |-> LowerChar(hyphened[i])]

(***************************************************************************)
(* Content nodes.                                                          *)
(***************************************************************************)
StrNode(tag, str) == [tag |-> tag, kind |-> "str", str |-> str, arr |-> <<>>, link |-> <<>>]
ArrNode(tag, arr) == [tag |-> tag, kind |-> "arr", str |-> <<>>, arr |-> arr, link |-> <<>>]
LinkNode(str, link) == [tag |-> "a", kind |-> "str", str |-> str, arr |-> <<>>, link |-> link]

\* `h${n}`
HTag(n) == <<"h1","h2","h3","h4","h5","h6","h7","h8","h9">>[n]

\* headingInfo: the heading tags and their levels
headingInfo == [t \in {"h1","h2","h3","h4","h5","h6"} |->
                 CHOOSE n \in 1..6 : HTag(n) = t]

IsHeadingTag(tag) == tag \in DOMAIN headingInfo

(***************************************************************************)
(* Text helpers of the normalizer and the resolver.                        *)
(***************************************************************************)
None == <<>>
Some(x) == <<x>>

\* escape: & < > " ' * to HTML entities
EscapeChar(c) ==
  CASE c = "&" -> <<"&","a","m","p",";">>
    [] c = "<" -> <<"&","l","t",";">>
    [] c = ">" -> <<"&","g","t",";">>
    [] c = "\"" -> <<"&","q","u","o","t",";">>
    [] c = "'" -> <<"&","#","3","9",";">>
    [] c = "*" -> <<"&","a","s","t",";">>
    [] OTHER -> <<c>>

escape(value) == Flatten([i \in DOMAIN value |-> EscapeChar(value[i])])

\* Array.prototype.join
RECURSIVE Join(_, _)
Join(strs, sep) ==
  IF strs = <<>> THEN <<>>
  ELSE IF Len(strs) = 1 THEN strs[1]
  ELSE strs[1] \o sep \o Join(Tail(strs), sep)

\* the positions where pat occurs in s
Occurrences(s, pat) ==
  { i \in 1..(Len(s) - Len(pat) + 1) : SubSeq(s, i, i + Len(pat) - 1) = pat }

Min(set) == CHOOSE x \in set : \A y \in set : x <= y
Max(set) == CHOOSE x \in set : \A y \in set : y <= x

ArrayDotLt == <<"A","r","r","a","y",".","<">>

\* .replace(/Array\.<(.+)>/, '$1[]'): the first "Array.<" that a ">" of the
\* same line follows with at least one character between (the dot matches no
\* line feed); (.+) is greedy, up to the last such ">"
ReplaceArray(name) ==
  LET from(i) == i + Len(ArrayDotLt)
      ends(i) == { k \in (from(i) + 1)..Len(name) :
                     name[k] = ">" /\ \A m \in from(i)..(k - 1) : name[m] # "\n" }
      starts == { i \in Occurrences(name, ArrayDotLt) : ends(i) # {} }
  IN  IF starts = {} THEN name
      ELSE LET i == Min(starts)
               j == Max(ends(i))
           IN  SubSeq(name, 1, i - 1)
               \o SubSeq(name, from(i), j - 1)
               \o <<"[", "]">>
               \o SubSeq(name, j + 1, Len(name))

\* .replace(/.</g, '<'): a character other than a line feed that "<" follows is
\* dropped
RECURSIVE DropBeforeLt(_)
DropBeforeLt(s) ==
  IF Len(s) < 2 THEN s
  ELSE IF s[2] = "<" /\ s[1] # "\n" THEN <<"<">> \o DropBeforeLt(SubSeq(s, 3, Len(s)))
  ELSE <<Head(s)>> \o DropBeforeLt(Tail(s))

\* normalizeTypes
normalizeTypes(types) == [i \in DOMAIN types |-> DropBeforeLt(ReplaceArray(types[i]))]

\* the built-in names of the negative lookahead in getContent
Keywords ==
  { <<"P","r","o","m","i","s","e">>,
    <<"O","b","j","e","c","t">>,
    <<"A","r","r","a","y">>,
    <<"M","a","p">>,
    <<"S","e","t">>,
    <<"F","u","n","c","t","i","o","n">>,
    <<"f","u","n","c","t","i","o","n">>,
    <<"s","t","r","i","n","g">>,
    <<"n","u","m","b","e","r">>,
    <<"b","o","o","l","e","a","n">>,
    <<"v","o","i","d">>,
    <<"n","u","l","l">>,
    <<"u","n","d","e","f","i","n","e","d">> }

\* the maximal runs of \w characters of s, in order
RECURSIVE WordRuns(_, _)
WordRuns(s, cur) ==
  IF s = <<>> THEN (IF cur = <<>> THEN <<>> ELSE <<cur>>)
  ELSE IF IsWord(Head(s)) THEN WordRuns(Tail(s), Append(cur, Head(s)))
  ELSE (IF cur = <<>> THEN <<>> ELSE <<cur>>) \o WordRuns(Tail(s), <<>>)

\* typeName.match(/\b(?!(?:Promise|...|undefined))\w+\b/g): the words that do
\* not begin with a built-in name (<<>> for null)
TypeMatches(typeName) ==
  SelectSeq(WordRuns(typeName, <<>>),
            LAMBDA w : ~\E kw \in Keywords : StartsWith(w, kw))

\* typeName.match(/(\W)|([A-Za-z]|\d)\w*/g): every non-word character, and
\* every word from its first letter or digit on; <<>> for null, which match
\* returns for a name of underscores only (it never returns an empty array)
RECURSIVE AllMatches(_, _)
AllMatches(s, cur) ==
  IF s = <<>> THEN (IF cur = <<>> THEN <<>> ELSE <<cur>>)
  ELSE LET c == Head(s)
       IN  IF ~IsWord(c)
             THEN (IF cur = <<>> THEN <<>> ELSE <<cur>>) \o <<<<c>>>> \o AllMatches(Tail(s), <<>>)
           ELSE IF cur = <<>> /\ c = "_" THEN AllMatches(Tail(s), <<>>)
           ELSE AllMatches(Tail(s), Append(cur, c))


(***************************************************************************)
(* Raw JSDoc records (DocsJsDocItem) and the normalizer.                   *)
(*                                                                         *)
(* An optional field is None (undefined) or Some(value).  A string field   *)
(* that the code only tests for truthiness is <<>> when undefined.  An     *)
(* entity (DocsType, DocsFunction, DocsClass) carries `keys`, the names of *)
(* its own properties, which is what an object spread copies, and `ref`,   *)
(* the identity of the object (=== compares identities).                   *)
(***************************************************************************)
RawParam(name, typeNames, description, optional, defaultvalue) ==
  [name |-> name, type |-> typeNames, description |-> description,
   optional |-> optional, defaultvalue |-> defaultvalue]

\* String(defaultvalue) for the default values JSDoc reports
StringOf(v) ==
  CASE v.t = "number" -> ToStr(v.n)
    [] v.t = "boolean" -> IF v.b THEN <<"t","r","u","e">> ELSE <<"f","a","l","s","e">>
    [] v.t = "null" -> <<"n","u","l","l">>
    [] OTHER -> v.s

\* A plausible slip: a truthiness test instead of the undefined test
normalizeParamTruthy(param) ==
  [name |-> param.name,
   type |-> normalizeTypes(param.type),
   description |-> param.description,
   optional |-> param.optional,
   defaults |-> IF param.defaultvalue # None
                   /\ StringOf(param.defaultvalue[1]) \notin
                        {<<"0">>, <<"f","a","l","s","e">>, <<"n","u","l","l">>, <<>>}
                  THEN Some(StringOf(param.defaultvalue[1])) ELSE None]

\* one turn of the map of normalizeParams
normalizeParam(param) ==
  [name |-> param.name,
   type |-> normalizeTypes(param.type),
   description |-> param.description,
   optional |-> param.optional,
   defaults |-> IF param.defaultvalue # None
                  THEN Some(StringOf(param.defaultvalue[1])) ELSE None]

normalizeParams(params) == [i \in DOMAIN params |-> normalizeParam(params[i])]

normalizeReturn(item) ==
  [type |-> normalizeTypes(item.type), description |-> item.description]

InfoFields == {"name", "id", "dir", "outDir", "type", "description", "desc", "props",
               "params", "returns", "yields", "augments", "members", "examples"}

\* an object with no own property
NoInfo ==
  [keys |-> {}, ref |-> None, name |-> <<>>, id |-> <<>>, dir |-> <<>>, outDir |-> <<>>,
   type |-> <<>>, description |-> <<>>, desc |-> <<>>, props |-> None, params |-> None,
   returns |-> None, yields |-> None, augments |-> None, members |-> None,
   examples |-> None]

\* { ...a, ...b } as a new object ref
Spread(a, b, ref) ==
  [f \in DOMAIN NoInfo |->
     IF f = "keys" THEN a.keys \cup b.keys
     ELSE IF f = "ref" THEN ref
     ELSE IF f \in b.keys THEN b[f] ELSE a[f]]

\* getInfo(item, kind), the new object being ref
getInfo(item, kind, ref) ==
  LET isType == kind = "typedef"
      isFunction == kind = "function"
      params == IF item.params = None THEN <<>> ELSE item.params[1]
      with(cond, keys) == IF cond THEN keys ELSE {}
  IN
  IF isFunction /\ item.type # None
    THEN [NoInfo EXCEPT
            !.keys = {"name", "description", "examples", "type"},
            !.ref = ref,
            !.name = item.name,
            !.description = item.description,
            !.examples = item.examples,
            !.type = LET names == normalizeTypes(item.type[1])
                     IN  IF names = <<>> THEN <<>> ELSE <<names[1]>>]
  ELSE IF isFunction
    THEN [NoInfo EXCEPT
            !.keys = {"name", "params"}
                     \cup with(item.returns # None, {"returns"})
                     \cup with(item.description # <<>>, {"description"})
                     \cup with(item.yields # None, {"yields"})
                     \cup with(item.examples # None, {"examples"}),
            !.ref = ref,
            !.name = item.name,
            !.params = Some(normalizeParams(params)),
            !.returns = IF item.returns # None
                          THEN Some(normalizeReturn(item.returns[1])) ELSE None,
            !.description = item.description,
            !.yields = IF item.yields # None
                         THEN Some(normalizeReturn(item.yields[1])) ELSE None,
            !.examples = item.examples]
  ELSE IF isType /\ item.type # None
    THEN [NoInfo EXCEPT
            !.keys = {"name", "id", "type", "dir"}
                     \cup with(item.filenameOut # <<>>, {"outDir"})
                     \cup with(item.description # <<>>, {"description"})
                     \cup with(item.properties # None, {"props"})
                     \cup with(item.params # None, {"params"})
                     \cup with(item.returns # None, {"returns"})
                     \cup with(item.augments # None, {"augments"})
                     \cup with(item.examples # None, {"examples"}),
            !.ref = ref,
            !.name = item.name,
            !.id = getId(item.name),
            !.type = normalizeTypes(item.type[1]),
            !.dir = item.dir,
            !.outDir = item.filenameOut,
            !.description = item.description,
            !.props = IF item.properties # None
                        THEN Some(normalizeParams(item.properties[1])) ELSE None,
            !.params = IF item.params # None THEN Some(normalizeParams(params)) ELSE None,
            !.returns = IF item.returns # None
                          THEN Some(normalizeReturn(item.returns[1])) ELSE None,
            !.augments = item.augments,
            !.examples = item.examples]
  ELSE [NoInfo EXCEPT
            !.keys = {"name", "type", "id", "dir", "members"}
                     \cup with(item.filenameOut # <<>>, {"outDir"})
                     \cup with(item.classdesc # <<>>, {"description"})
                     \cup with(item.description # <<>>, {"desc"})
                     \cup with(item.augments # None, {"augments"})
                     \cup with(item.params # None, {"params"})
                     \cup with(item.examples # None, {"examples"}),
            !.ref = ref,
            !.name = item.name,
            !.type = IF item.augments # None THEN item.augments[1] ELSE <<>>,
            !.id = getId(item.name),
            !.dir = item.dir,
            !.members = Some(<<>>),
            !.outDir = item.filenameOut,
            !.description = item.classdesc,
            !.desc = item.description,
            !.augments = item.augments,
            !.params = IF item.params # None THEN Some(normalizeParams(params)) ELSE None,
            !.examples = item.examples]


(***************************************************************************)
(* The resolver (getContent) and the content tree builder (getTypeContent).*)
(*                                                                         *)
(* env is [docTypes, url, renderType, flipAt, fileOk, fileText,            *)
(* highlighted]: the type registry, the url argument, renderType.ref when  *)
(* the turn of the loop over dirDocItems begins, the await of the turn     *)
(* during which a render call of the other format begins (0 for none),     *)
(* what readFile finds, and what codeToHtml returns for each code and      *)
(* language of the examples (Highlighted).                                 *)
(* st is [types, usedTypes, err, overflow, awaits]: the unit's types array *)
(* and usedTypes set, whether a readFile has thrown, whether the recursion *)
(* went deeper than MaxDepth, and how many awaits of the turn have ended.  *)
(* Each operator returns [content, st].                                    *)
(***************************************************************************)
\* the other of the two formats
OtherFormat(format) == IF format = "markdown" THEN "html" ELSE "markdown"

\* renderType.ref as a statement reads it after `awaits` awaits of the turn
\* have ended: a render call that begins during an await has assigned its
\* format when the await ends
ReadRenderType(env, awaits) ==
  IF env.flipAt # 0 /\ awaits >= env.flipAt
    THEN OtherFormat(env.renderType) ELSE env.renderType

\* env with renderType.ref as it reads after `awaits` awaits
EnvAt(env, awaits) ==
  [env EXCEPT !.renderType = ReadRenderType(env, awaits), !.flipAt = 0]

ReadMeMd == <<"R","E","A","D","M","E",".","m","d">>

\* A plausible slip: the cross-file link is built whenever the type has a directory
TypeLinkAlwaysCross(docType, dir, env) ==
  IF docType.dir # <<>>
    THEN env.url \o <<"/">>
         \o (IF docType.outDir # <<>> THEN docType.outDir ELSE docType.dir)
         \o <<"/">>
         \o (IF env.renderType = "markdown" THEN ReadMeMd ELSE <<>>)
         \o <<"#">> \o docType.id
    ELSE <<"#">> \o docType.id

\* the link of a reference to docType from the unit of dir
TypeLink(docType, dir, env) ==
  IF docType.dir # <<>> /\ dir # docType.dir
    THEN env.url \o <<"/">>
         \o (IF docType.outDir # <<>> THEN docType.outDir ELSE docType.dir)
         \o <<"/">>
         \o (IF env.renderType = "markdown" THEN ReadMeMd ELSE <<>>)
         \o <<"#">> \o docType.id
    ELSE <<"#">> \o docType.id

\* the grave accent, as one sign
Backtick == <<"TICK">>

\* tagToSymbol[itemTag] || ''
tagToSymbol(itemTag) ==
  CASE itemTag = "h1" -> <<"#"," ">>
    [] itemTag = "h2" -> <<"\n","\n","#","#"," ">>
    [] itemTag = "h3" -> <<"\n","\n","#","#","#"," ">>
    [] itemTag = "h4" -> <<"\n","\n","#","#","#","#"," ">>
    [] itemTag = "h5" -> <<"\n","\n","#","#","#","#","#"," ">>
    [] itemTag = "h6" -> <<"\n","\n","#","#","#","#","#","#"," ">>
    [] itemTag = "strong" -> <<"*","*">>
    [] itemTag = "code" -> Backtick
    [] itemTag = "li" -> <<" "," ","\n","-"," ">>
    [] itemTag = "hr" -> <<"\n","*","*","*">>
    [] itemTag = "p" -> <<" "," ","\n">>
    [] OTHER -> <<>>

\* the keys of tagToSymbol
SymbolTags == {"h1", "h2", "h3", "h4", "h5", "h6", "strong", "code", "li", "hr", "p"}

\* tagToSymbol[tag].replace('\n', '') for a tag that tagToSymbol has: the first
\* line feed of the symbol is taken out
MdHeadingSymbol(tag) ==
  LET s == tagToSymbol(tag)
  IN  IF \E i \in DOMAIN s : s[i] = "\n"
        THEN LET first == CHOOSE i \in DOMAIN s : s[i] = "\n" /\ \A j \in 1..(i - 1) : s[j] # "\n"
             IN  SubSeq(s, 1, first - 1) \o SubSeq(s, first + 1, Len(s))
        ELSE s

\* the three grave accents that open and close a fenced code block, as one sign
Fence == <<"FENCE">>

\* code.split('\n')
SplitLines(s) ==
  LET feeds == { i \in DOMAIN s : s[i] = "\n" }
      \* the position of the k-th line feed, 0 and Len(s) + 1 around them
      at(k) == IF k = 0 THEN 0
               ELSE IF k > Cardinality(feeds) THEN Len(s) + 1
               ELSE CHOOSE i \in feeds : Cardinality({ j \in feeds : j < i }) = k - 1
  IN  [k \in 1..(Cardinality(feeds) + 1) |-> SubSeq(s, at(k - 1) + 1, at(k) - 1)]

\* the number of characters s begins with that are of one kind: white space,
\* no white space, of a word, punctuation, or anything but the quote `kind`
RunLen(s, kind) ==
  LET other == { i \in DOMAIN s :
                   LET space == IsSpace(s[i])
                       word == IsWord(s[i])
                   IN  ~ CASE kind = "space" -> space
                           [] kind = "nonspace" -> ~space
                           [] kind = "word" -> word
                           [] kind = "punctuation" ->
                                ~word /\ ~space /\ s[i] \notin {"'", "\""}
                           [] OTHER -> s[i] # kind }
  IN  IF other = {} THEN Len(s) ELSE Min(other) - 1

\* The tokens shiki makes of one line of code, as the pages the tests expect
\* show them: white space goes with the token after it; a shell line is cut at
\* white space; a line of another language is cut into words, runs of
\* punctuation, quotes and what stands between two quotes.  quote is the quote
\* of the string the scan is in, "" outside of one; w is the white space the
\* token begins with.  A colon takes the white space after it when the line
\* before has left a value open (`open`): the grammar then reads the line as
\* what follows that value, not as a property.
RECURSIVE ShikiTokens(_, _, _, _, _)
ShikiTokens(s, lang, quote, w, open) ==
  IF s = <<>> THEN <<>>
  ELSE LET rest == SubSeq(s, w + 1, Len(s))
           shell == lang = <<"s","h","e","l","l">>
           opens == quote = "" /\ rest # <<>> /\ ~shell /\ rest[1] \in {"'", "\""}
           closes == quote # "" /\ rest[1] = quote
           n == IF rest = <<>> THEN 0
                ELSE IF opens \/ closes THEN 1
                ELSE RunLen(rest, IF quote # "" THEN quote
                                  ELSE IF shell THEN "nonspace"
                                  ELSE IF rest[1] \in {"_"} \cup Range(UpperChars)
                                                  \cup Range(LowerChars) \cup Range(DigitChars)
                                    THEN "word"
                                  ELSE "punctuation")
           next == IF opens THEN rest[1]
                   ELSE IF quote # "" /\ ~closes THEN quote
                   ELSE ""
           t == IF open /\ quote = "" /\ ~shell /\ SubSeq(rest, 1, n) = <<":">>
                  THEN RunLen(SubSeq(s, w + n + 1, Len(s)), "space") ELSE 0
           left == SubSeq(s, w + n + t + 1, Len(s))
       IN  <<SubSeq(s, 1, w + n + t)>>
           \o ShikiTokens(left, lang, next, IF next # "" THEN 0 ELSE RunLen(left, "space"),
                          open)

\* codeToHtml of shiki, an external collaborator, as the pages the tests expect
\* show it: a pre element with a code element, in it one span for each line
\* and in that one span for each token, the lines a line feed apart.  The
\* class attributes of the pre and span elements, which name the theme and the
\* styles, are left out.  A line leaves a value open when it is not empty and
\* ends neither in a comma or semicolon nor in an opening bracket.
codeToHtml(code, lang) ==
  LET span(text) == <<"<","s","p","a","n",">">> \o text \o <<"<","/","s","p","a","n",">">>
      lines == SplitLines(code)
      open(i) == /\ i > 1 /\ lines[i - 1] # <<>>
                 /\ lines[i - 1][Len(lines[i - 1])] \notin {",", ";", "{", "(", "["}
      line(i) == LET tokens == ShikiTokens(lines[i], lang, "", RunLen(lines[i], "space"),
                                           open(i))
                 IN  span(Flatten([k \in DOMAIN tokens |-> span(tokens[k])]))
  IN  <<"<","p","r","e"," ","t","a","b","i","n","d","e","x","=","\"","0","\"",">","<","c","o","d","e",">">>
      \o Join([i \in DOMAIN lines |-> line(i)], <<"\n">>)
      \o <<"<","/","c","o","d","e",">","<","/","p","r","e",">">>

\* codeToHtml(code, lang) for the code of every example of the records, the
\* code of an example that names a file being fileText
Highlighted(items, fileText) ==
  LET codes == UNION { { <<IF StartsWith(e.code, <<".">>) THEN fileText ELSE e.code, e.lang>> :
                           e \in Range(items[i].examples[1]) } :
                       i \in { j \in DOMAIN items : items[j].examples # None } }
  IN  [p \in codes |-> codeToHtml(p[1], p[2])]

\* One turn of the loop of normalizeExamples.  An example is the match of the
\* example regular expression: [title, desc, lang, code].
\* acc is [newExamples, newContent, err, isHtml, awaits]; err is set when
\* readFile rejects and when tagToSymbol has no entry for the tag of a title
\* (replace of undefined); isHtml is what the call read from renderType.ref
\* when it began; readFile and codeToHtml are awaited.
normalizeExample(example, tag, env, acc) ==
  LET isHtml == acc.isHtml
      reads == StartsWith(example.code, <<".">>)
      code == IF reads THEN env.fileText ELSE example.code
      hasCode == example.lang # <<>> /\ code # <<>>
      newExample ==
        (IF example.title # <<>>
           THEN MdHeadingSymbol(tag) \o example.title \o <<"\n">> ELSE <<>>)
        \o (IF example.desc # <<>> THEN <<"\n">> \o example.desc \o <<"\n">> ELSE <<>>)
        \o (IF hasCode
              THEN <<"\n">> \o Fence \o example.lang \o <<"\n">> \o code
                   \o <<"\n">> \o Fence
              ELSE <<>>)
      newContent ==
        (IF example.title # <<>> THEN <<StrNode(tag, example.title)>> ELSE <<>>)
        \o (IF example.desc # <<>> THEN <<StrNode("p", example.desc)>> ELSE <<>>)
        \o (IF hasCode /\ isHtml
              THEN <<StrNode("", env.highlighted[<<code, example.lang>>])>> ELSE <<>>)
  IN  IF acc.err THEN acc
      ELSE IF reads /\ ~env.fileOk THEN [acc EXCEPT !.err = TRUE]
      ELSE IF example.title # <<>> /\ tag \notin SymbolTags THEN [acc EXCEPT !.err = TRUE]
      ELSE [newExamples |-> IF newExample # <<>>
                              THEN Append(acc.newExamples, newExample)
                              ELSE acc.newExamples,
            newContent |-> acc.newContent \o newContent,
            err |-> FALSE,
            isHtml |-> isHtml,
            awaits |-> acc.awaits + (IF reads THEN 1 ELSE 0)
                       + (IF hasCode /\ isHtml THEN 1 ELSE 0)]

RECURSIVE normalizeExamplesLoop(_, _, _, _)
normalizeExamplesLoop(examples, tag, env, acc) ==
  IF examples = <<>> THEN acc
  ELSE normalizeExamplesLoop(Tail(examples), tag, env,
                             normalizeExample(Head(examples), tag, env, acc))

\* normalizeExamples, begun after `awaits` awaits of the turn:
\* [isArr, str, arr, err, awaits], a string or an array of nodes, or err when
\* readFile threw
normalizeExamples(examples, dir, tag, env, awaits) ==
  LET acc == normalizeExamplesLoop(examples, tag, env,
               [newExamples |-> <<>>, newContent |-> <<>>, err |-> FALSE,
                isHtml |-> ReadRenderType(env, awaits) = "html", awaits |-> awaits])
  IN  IF acc.err THEN [isArr |-> FALSE, str |-> <<>>, arr |-> <<>>, err |-> TRUE,
                       awaits |-> acc.awaits]
      ELSE IF acc.isHtml
        THEN [isArr |-> acc.newContent # <<>>, str |-> <<>>,
              arr |-> acc.newContent, err |-> FALSE, awaits |-> acc.awaits]
      ELSE [isArr |-> FALSE,
            str |-> IF acc.newExamples # <<>>
                      THEN <<"\n">> \o Join(acc.newExamples, <<"\n">>) ELSE <<>>,
            arr |-> <<>>, err |-> FALSE, awaits |-> acc.awaits]

\* A plausible slip: the used set is never consulted
usedTypesHasNever(usedTypes, name) == FALSE

\* usedTypes.has(docTypeName)
usedTypesHas(usedTypes, name) == name \in usedTypes

Sep(content) == IF content # <<>> THEN <<StrNode("", <<" ", "|", " ">>)>> ELSE <<>>

\* a rejected readFile, or more than MaxDepth nested calls, ends the awaited
\* calls: what they return is handed upwards unchanged
Thrown(st) == st.err \/ st.overflow

RECURSIVE getContent(_, _, _, _, _, _, _)
RECURSIVE getContentMatches(_, _, _, _, _, _, _, _)
RECURSIVE getContents(_, _, _, _, _, _, _)
RECURSIVE getTypeContent(_, _, _, _, _, _, _)
RECURSIVE membersContent(_, _, _, _, _, _, _, _, _)

\* types.push(...await getTypeContent(docType, 'typedef', ...)) and the rest of
\* the loop over allMatches, r being what getTypeContent returned
getContentMatchesPush(rest, typeMatches, env, cur, dir, fuel, content, r) ==
  IF Thrown(r.st) THEN [content |-> content, st |-> r.st]
  ELSE
  getContentMatches(rest, typeMatches, env, cur,
                    [r.st EXCEPT !.types = @ \o r.content, !.awaits = @ + 1],
                    dir, fuel, content)

\* the loop over allMatches of one type name
getContentMatches(matches, typeMatches, env, cur, st, dir, fuel, content) ==
  IF matches = <<>> THEN [content |-> content, st |-> st]
  ELSE IF Head(matches) \notin Range(typeMatches) \/ Head(matches) \notin DOMAIN env.docTypes
    THEN getContentMatches(Tail(matches), typeMatches, env, cur, st, dir, fuel,
                           Append(content, StrNode("", escape(Head(matches)))))
  ELSE IF env.docTypes[Head(matches)].ref = cur.ref
          \/ usedTypesHas(st.usedTypes, env.docTypes[Head(matches)].name)
    THEN getContentMatches(Tail(matches), typeMatches, env, cur, st, dir, fuel,
           Append(content, LinkNode(env.docTypes[Head(matches)].name,
                                    TypeLink(env.docTypes[Head(matches)], dir,
                                             EnvAt(env, st.awaits)))))
  ELSE getContentMatchesPush(Tail(matches), typeMatches, env, cur, dir, fuel,
           Append(content, LinkNode(env.docTypes[Head(matches)].name,
                                    TypeLink(env.docTypes[Head(matches)], dir,
                                             EnvAt(env, st.awaits)))),
           getTypeContent(env.docTypes[Head(matches)], "typedef", env,
                          [st EXCEPT !.usedTypes = @ \cup {env.docTypes[Head(matches)].name}],
                          dir, 2, fuel - 1))

\* the end of one turn of the loop over type, r being what the loop over
\* allMatches left
getContentPush(rest, env, cur, dir, fuel, content, r) ==
  IF Thrown(r.st) THEN [content |-> content, st |-> r.st]
  ELSE
  getContent(rest, env, cur, r.st, dir, fuel,
             content \o Sep(content) \o <<ArrNode("", r.content)>>)

\* getContent(type, docTypes, currentDocType, types, usedTypes, dir, url, _content).
\* When allMatches is undefined (match returned null) the for-of over it throws
\* a TypeError and getContent rejects.
getContent(type, env, cur, st, dir, fuel, content) ==
  IF type = <<>> THEN [content |-> content, st |-> st]
  ELSE IF TypeMatches(Head(type)) = <<>>
    THEN getContent(Tail(type), env, cur, st, dir, fuel,
                    content \o Sep(content) \o <<StrNode("", escape(Head(type)))>>)
  ELSE IF AllMatches(Head(type), <<>>) = <<>>
    THEN [content |-> content, st |-> [st EXCEPT !.err = TRUE]]
  ELSE getContentPush(Tail(type), env, cur, dir, fuel, content,
                      getContentMatches(AllMatches(Head(type), <<>>), TypeMatches(Head(type)),
                                        env, cur, st, dir, fuel, <<>>))

getContentsPush(rest, env, cur, dir, fuel, contents, r) ==
  IF Thrown(r.st) THEN [contents |-> contents, st |-> r.st]
  ELSE
  getContents(rest, env, cur, [r.st EXCEPT !.awaits = @ + 1], dir, fuel, Append(contents, r.content))

\* the awaited getContent calls of one getTypeContent call, one after the
\* other: [contents, st]
getContents(exprs, env, cur, st, dir, fuel, contents) ==
  IF exprs = <<>> THEN [contents |-> contents, st |-> st]
  ELSE getContentsPush(Tail(exprs), env, cur, dir, fuel, contents,
                       getContent(Head(exprs), env, cur, st, dir, fuel, <<>>))

\* `${paramName}${paramOpt ? '?' : ''}: ${paramType.join(' | ')}`
paramSignature(param) ==
  param.name \o (IF param.optional THEN <<"?">> ELSE <<>>) \o <<":", " ">>
  \o Join(param.type, <<" ", "|", " ">>)

\* the content of the signature paragraph of a function or class
signature(name, params, returns, isClass) ==
  LET paramsList == IF params = None THEN <<>>
                    ELSE [i \in DOMAIN params[1] |-> paramSignature(params[1][i])]
      returnsList == IF returns = None THEN <<>> ELSE returns[1].type
  IN  (IF isClass THEN <<"n","e","w"," ">> ELSE <<>>) \o name \o <<"(">>
      \o escape(Join(paramsList, <<",", " ">>)) \o <<")", ":", " ">>
      \o (IF isClass THEN name ELSE escape(Join(returnsList, <<" ", "|", " ">>)))

\* one turn of the loop over props, and of the same loop over params:
\* typeCodes is what getContent returned for the type of prop
paramContent(prop, typeCodes, isHtml) ==
  LET propsTerm == <<ArrNode("strong", <<StrNode("code", prop.name)>>),
                     StrNode("", <<" ">>),
                     ArrNode("code", typeCodes),
                     StrNode("", <<" ">>),
                     StrNode("", IF prop.optional THEN <<"o","p","t","i","o","n","a","l">>
                                 ELSE <<"r","e","q","u","i","r","e","d">>)>>
      propsDetails ==
        (IF prop.description # <<>> THEN <<StrNode("p", prop.description)>> ELSE <<>>)
        \o (IF prop.defaults # None /\ prop.defaults[1] # <<>>
              THEN <<ArrNode("p", <<StrNode("", <<"D","e","f","a","u","l","t",":"," ">>),
                                    StrNode("code", prop.defaults[1])>>)>>
              ELSE <<>>)
  IN  ArrNode(IF isHtml THEN "div" ELSE "li",
              IF isHtml THEN <<ArrNode("dt", propsTerm), ArrNode("dd", propsDetails)>>
              ELSE propsTerm \o propsDetails)

\* the list of props or params, contents[offset + i] being the resolved type of
\* the i-th
paramsContent(list, contents, offset, isHtml) ==
  ArrNode(IF isHtml THEN "dl" ELSE "ul",
          [i \in DOMAIN list |-> paramContent(list[i], contents[offset + i], isHtml)])

\* the headings one turn of the members loop emits before the member
MemberTitles(hasPropsTitle, hasMethodsTitle, memberIsFunction, depth) ==
  (IF ~hasPropsTitle /\ ~memberIsFunction
     THEN <<StrNode(HTag(depth + 2), <<"P","r","o","p","e","r","t","i","e","s">>)>> ELSE <<>>)
  \o (IF ~hasMethodsTitle /\ memberIsFunction
        THEN <<StrNode(HTag(depth + 2), <<"M","e","t","h","o","d","s">>)>> ELSE <<>>)

\* _content.push(...await getTypeContent(member, ...)) and the rest of the loop
\* over members, r being what getTypeContent returned; hasP and hasM are
\* hasPropsTitle and hasMethodsTitle
membersContentPush(rest, env, dir, depth, fuel, hasP, hasM, content, memberIsFunction, r) ==
  IF Thrown(r.st) THEN [content |-> content, st |-> r.st]
  ELSE
  membersContent(rest, env, [r.st EXCEPT !.awaits = @ + 1], dir, depth, fuel,
                 hasP \/ ~memberIsFunction,
                 hasM \/ memberIsFunction,
                 content
                 \o MemberTitles(hasP, hasM, memberIsFunction, depth)
                 \o r.content)

\* the loop over members: [content, st]
membersContent(members, env, st, dir, depth, fuel, hasPropsTitle, hasMethodsTitle, content) ==
  IF members = <<>> THEN [content |-> content, st |-> st]
  ELSE membersContentPush(Tail(members), env, dir, depth, fuel, hasPropsTitle,
                          hasMethodsTitle, content, Head(members).params # None,
                          getTypeContent(Head(members),
                                         IF Head(members).params # None THEN "function"
                                         ELSE "typedef",
                                         env, st, dir, depth + 2, fuel - 1))

\* A plausible slip: the heading of the section is two levels further down
returnsContentDeeper(title, returns, typeCodes, depth) ==
  <<StrNode(HTag(depth + 4), title),
    ArrNode("p", <<ArrNode("code", typeCodes)>>
                 \o (IF returns.description # <<>>
                       THEN <<StrNode("", <<" ">>), StrNode("", returns.description)>>
                       ELSE <<>>))>>

\* the returns and the yields section
returnsContent(title, returns, typeCodes, depth) ==
  <<StrNode(HTag(depth + 2), title),
    ArrNode("p", <<ArrNode("code", typeCodes)>>
                 \o (IF returns.description # <<>>
                       THEN <<StrNode("", <<" ">>), StrNode("", returns.description)>>
                       ELSE <<>>))>>

\* the guard after the destructuring: false when getTypeContent returns at once
OwnedByUnit(isType, newInfo, dir) == ~(isType /\ newInfo.dir # dir)

\* the object getTypeContent destructures: { ...funcType, ...newInfo } for a
\* function whose type names an entry of docTypes.  newInfo.type is a string
\* only in what getInfo(item, 'function') returns for a record with a type,
\* the one object with a type and no id; the type of every other object is an
\* array, which docTypes.get never finds.
mergedInfo(info, kind, docTypesMap) ==
  IF kind = "function" /\ "type" \in info.keys /\ "id" \notin info.keys
     /\ info.type # <<>> /\ info.type[1] \in DOMAIN docTypesMap
    THEN Spread(docTypesMap[info.type[1]], info, None)
    ELSE info

\* the type expressions getTypeContent hands to getContent, in the order of
\* the calls
contentTypes(newInfo, kind) ==
  LET props == IF newInfo.props = None THEN <<>> ELSE newInfo.props[1]
      params == IF newInfo.params = None THEN <<>> ELSE newInfo.params[1]
  IN
  (IF kind = "typedef" THEN <<newInfo.type>> ELSE <<>>)
  \o (IF newInfo.augments # None THEN <<newInfo.augments[1]>> ELSE <<>>)
  \o [i \in DOMAIN props |-> props[i].type]
  \o [i \in DOMAIN params |-> params[i].type]
  \o (IF newInfo.returns # None THEN <<newInfo.returns[1].type>> ELSE <<>>)
  \o (IF newInfo.yields # None THEN <<newInfo.yields[1].type>> ELSE <<>>)

\* what getTypeContent pushes from the heading to the yields section,
\* contents being what the getContent calls returned
typeSections(newInfo, kind, isHtml, depth, contents) ==
  LET isType == kind = "typedef"
      isFunction == kind = "function"
      isClass == kind = "class"
      name == newInfo.name
      props == IF newInfo.props = None THEN <<>> ELSE newInfo.props[1]
      params == IF newInfo.params = None THEN <<>> ELSE newInfo.params[1]
      atAugments == IF isType THEN 1 ELSE 0
      atProps == atAugments + (IF newInfo.augments # None THEN 1 ELSE 0)
      atParams == atProps + Len(props)
      atReturns == atParams + Len(params)
      atYields == atReturns + (IF newInfo.returns # None THEN 1 ELSE 0)
  IN  <<StrNode(HTag(depth + 1), name)>>
      \o (IF isClass
            THEN (IF newInfo.description # <<>>
                    THEN <<StrNode("p", newInfo.description)>> ELSE <<>>)
                 \o <<StrNode(HTag(depth + 2), <<"C","o","n","s","t","r","u","c","t","o","r">>)>>
            ELSE <<>>)
      \o (IF isFunction \/ isClass
            THEN <<ArrNode("p", <<ArrNode("strong", <<ArrNode("code",
                     <<StrNode("", signature(name, newInfo.params,
                                             newInfo.returns, isClass))>>)>>)>>)>>
            ELSE <<>>)
      \o (IF isClass /\ newInfo.desc # <<>>
            THEN <<StrNode("p", newInfo.desc)>> ELSE <<>>)
      \o (IF ~isClass /\ newInfo.description # <<>>
            THEN <<StrNode("p", newInfo.description)>> ELSE <<>>)
      \o (IF isType
            THEN <<ArrNode("p", <<StrNode("strong", <<"T","y","p","e",":">>),
                                  StrNode("", <<" ">>),
                                  ArrNode("code", contents[1])>>)>>
            ELSE <<>>)
      \o (IF newInfo.augments # None
            THEN <<ArrNode("p", <<StrNode("strong", <<"A","u","g","m","e","n","t","s",":">>),
                                  StrNode("", <<" ">>),
                                  ArrNode("code", contents[atAugments + 1])>>)>>
            ELSE <<>>)
      \o (IF props # <<>>
            THEN <<StrNode(HTag(depth + 2), <<"P","r","o","p","e","r","t","i","e","s">>),
                   paramsContent(props, contents, atProps, isHtml)>>
            ELSE <<>>)
      \o (IF params # <<>>
            THEN <<StrNode(HTag(depth + (IF isClass THEN 3 ELSE 2)),
                           <<"P","a","r","a","m","e","t","e","r","s">>),
                   paramsContent(params, contents, atParams, isHtml)>>
            ELSE <<>>)
      \o (IF newInfo.returns # None
            THEN returnsContent(<<"R","e","t","u","r","n","s">>, newInfo.returns[1],
                                contents[atReturns + 1], depth)
            ELSE <<>>)
      \o (IF newInfo.yields # None
            THEN returnsContent(<<"Y","i","e","l","d","s">>, newInfo.yields[1],
                                contents[atYields + 1], depth)
            ELSE <<>>)

\* A plausible slip: the examples are put in front of what was pushed so far
typeExamplesFirst(content, st, depth, ex) ==
  IF ex.err THEN [content |-> content, st |-> [st EXCEPT !.err = TRUE]]
  ELSE IF ~ex.isArr /\ ex.str = <<>> THEN [content |-> content, st |-> st]
  ELSE [content |-> <<StrNode(HTag(depth + 2), <<"E","x","a","m","p","l","e","s">>),
                      IF ex.isArr THEN ArrNode("", ex.arr) ELSE StrNode("", ex.str)>>
                    \o content,
        st |-> st]

\* the examples section and the return of getTypeContent, ex being what
\* normalizeExamples returned
typeExamples(content, st, depth, ex) ==
  IF ex.err THEN [content |-> content, st |-> [st EXCEPT !.err = TRUE]]
  ELSE IF ~ex.isArr /\ ex.str = <<>> THEN [content |-> content, st |-> st]
  ELSE [content |-> content
                    \o <<StrNode(HTag(depth + 2), <<"E","x","a","m","p","l","e","s">>),
                         IF ex.isArr THEN ArrNode("", ex.arr) ELSE StrNode("", ex.str)>>,
        st |-> st]

\* await normalizeExamples(...) and the examples section: the await has ended
\* when the section is pushed
typeExamplesAwaited(content, st, depth, awaited, ex) ==
  typeExamples(content, IF awaited THEN [st EXCEPT !.awaits = ex.awaits + 1] ELSE st,
               depth, ex)

\* getTypeContent after the loop over members, r being what the loop left
typeMembers(newInfo, env, dir, depth, sections, r) ==
  IF Thrown(r.st) THEN [content |-> sections, st |-> r.st]
  ELSE
  typeExamplesAwaited(sections \o r.content, r.st, depth, newInfo.examples # None,
                      IF newInfo.examples # None
                        THEN normalizeExamples(newInfo.examples[1], dir, HTag(depth + 3),
                                               env, r.st.awaits)
                        ELSE [isArr |-> FALSE, str |-> <<>>, arr |-> <<>>, err |-> FALSE,
                              awaits |-> r.st.awaits])

\* getTypeContent after the getContent calls, r being what they returned and
\* isHtml what the call read from renderType.ref when it began
typeResolved(newInfo, kind, env, dir, depth, fuel, isHtml, r) ==
  IF Thrown(r.st) THEN [content |-> <<>>, st |-> r.st]
  ELSE
  typeMembers(newInfo, env, dir, depth,
              typeSections(newInfo, kind, isHtml, depth, r.contents),
              IF kind = "class" /\ newInfo.members # None
                THEN membersContent(newInfo.members[1], env, r.st, dir, depth, fuel,
                                    FALSE, FALSE, <<>>)
                ELSE [content |-> <<>>, st |-> r.st])

\* getTypeContent(info, kind, docTypes, types, usedTypes, dir, url, depth)
getTypeContent(info, kind, env, st, dir, depth, fuel) ==
  IF fuel = 0 THEN [content |-> <<>>, st |-> [st EXCEPT !.overflow = TRUE]]
  ELSE IF ~OwnedByUnit(kind = "typedef", mergedInfo(info, kind, env.docTypes), dir)
    THEN [content |-> <<>>, st |-> st]
  ELSE typeResolved(mergedInfo(info, kind, env.docTypes), kind, env, dir, depth, fuel,
                    ReadRenderType(env, st.awaits) = "html",
                    getContents(contentTypes(mergedInfo(info, kind, env.docTypes), kind),
                                env, info, st, dir, fuel, <<>>))

(***************************************************************************)
(* getMarkdown: the Markdown walker.  Its output is the string _output.ref,*)
(* a sequence of characters; Backtick stands for the grave accent.         *)
(***************************************************************************)

\* the tag as a sequence of characters
TagChars(tag) ==
  CASE tag = "details" -> <<"d","e","t","a","i","l","s">>
    [] tag = "summary" -> <<"s","u","m","m","a","r","y">>
    [] OTHER -> <<tag>>

\* symbol, as getMarkdown has it when it is appended
markdownSymbol(data) ==
  IF data.kind = "arr" /\ data.tag = "code" THEN <<"<","c","o","d","e",">">>
  ELSE IF data.tag \in {"details", "summary"}
    THEN <<"\n","<">> \o TagChars(data.tag) \o <<">">>
  ELSE IF data.link # <<>> /\ data.tag = "a"
    THEN <<"<","a"," ","h","r","e","f","=","\"">> \o data.link \o <<"\"",">">>
  ELSE tagToSymbol(data.tag)

\* endSymbol, as getMarkdown has it when it is appended
markdownEndSymbol(data) ==
  IF data.kind = "arr" /\ data.tag = "code" THEN <<"<","/","c","o","d","e",">">>
  ELSE IF data.tag \in {"details", "summary"}
    THEN (IF data.tag = "details" THEN <<"\n","\n">> ELSE <<>>)
         \o <<"<","/">> \o TagChars(data.tag) \o <<">">>
         \o (IF data.tag = "summary" THEN <<"\n">> ELSE <<>>)
  ELSE IF data.link # <<>> /\ data.tag = "a" THEN <<"<","/","a",">">>
  ELSE IF data.tag \in {"code", "strong"} THEN tagToSymbol(data.tag)
  ELSE <<>>

RECURSIVE getMarkdown(_, _, _)
RECURSIVE getMarkdownEach(_, _, _)

\* content.forEach(item => { getMarkdown(item, itemTag, _output) })
getMarkdownEach(items, itemTag, output) ==
  IF items = <<>> THEN output
  ELSE getMarkdownEach(Tail(items), itemTag, getMarkdown(Head(items), itemTag, output))

\* getMarkdown(data, outerTag, _output): the new _output.ref
getMarkdown(data, outerTag, output) ==
  (IF data.kind = "arr"
     THEN getMarkdownEach(data.arr, data.tag,
                          output \o markdownSymbol(data)
                          \o (IF data.tag = "p" /\ outerTag # "li" THEN <<"\n">> ELSE <<>>))
     ELSE output \o markdownSymbol(data)
          \o (IF data.tag = "p" /\ outerTag # "li" THEN <<"\n">> ELSE <<>>)
          \o data.str)
  \o markdownEndSymbol(data)

(***************************************************************************)
(* getHtml: the HTML walker.  Its state is the record                      *)
(*   [title, headings, output, ids, calls]                                 *)
(* for title.ref, headings.ref, _output.ref, _ids and the calls made to    *)
(* filterAttr.  _output.ref is kept as the sequence of the pieces appended *)
(* to it: an opening tag with its attributes, a text, a closing tag.  A    *)
(* text piece "md" stands for markdownToHtml(content), "raw" for a literal.*)
(* A heading-index entry is [id, title, tag, children].                    *)
(***************************************************************************)
EmptyHtml == [title |-> <<>>, headings |-> <<>>, output |-> <<>>, ids |-> {}, calls |-> <<>>]

OpenPiece(tag, attrs) == [k |-> "open", tag |-> tag, attrs |-> attrs, str |-> <<>>]
ClosePiece(tag) == [k |-> "close", tag |-> tag, attrs |-> <<>>, str |-> <<>>]
TextPiece(k, str) == [k |-> k, tag |-> "", attrs |-> <<>>, str |-> str]

\* A plausible slip: the suffix search starts at 2
UniqueIdFromTwo(id, ids) ==
  IF id \notin ids THEN id
  ELSE LET n == CHOOSE m \in 2..(Cardinality(ids) + 2) :
                  /\ (id \o <<"-">> \o ToStr(m)) \notin ids
                  /\ \A l \in 2..(m - 1) : (id \o <<"-">> \o ToStr(l)) \in ids
       IN  id \o <<"-">> \o ToStr(n)

\* The suffix loop of getHtml: id, else the first of id-1, id-2, ... not in _ids
UniqueId(id, ids) ==
  IF id \notin ids THEN id
  ELSE LET n == CHOOSE m \in 1..(Cardinality(ids) + 1) :
                  /\ (id \o <<"-">> \o ToStr(m)) \notin ids
                  /\ \A l \in 1..(m - 1) : (id \o <<"-">> \o ToStr(l)) \in ids
       IN  id \o <<"-">> \o ToStr(n)

ReplaceLast(seq, x) == [seq EXCEPT ![Len(seq)] = x]

\* The while loop that walks down the last children, then parent.children.push
RECURSIVE AttachUnder(_, _, _)
AttachUnder(parent, headingData, targetLevel) ==
  IF headingInfo[parent.tag] < targetLevel /\ parent.children # <<>>
    THEN [parent EXCEPT !.children =
            ReplaceLast(@, AttachUnder(@[Len(@)], headingData, targetLevel))]
    ELSE [parent EXCEPT !.children = Append(@, headingData)]

\* The heading branch of getHtml for a tag other than h1
RegisterHeading(headings, headingData) ==
  LET headingsLen == Len(headings)
      headingLevel == headingInfo[headingData.tag]
  IN  IF headingLevel = 2 THEN Append(headings, headingData)
      ELSE IF headingLevel > 2 /\ headingsLen > 0
        THEN ReplaceLast(headings,
               AttachUnder(headings[headingsLen], headingData, headingLevel - 1))
      ELSE headings

\* The filterAttr hooks: the default (attr) => attr, and the hook of the tests
ApplyFilterAttr(filter, attr, data, outerTag) ==
  IF filter = "identity" THEN attr
  ELSE attr
       \o (IF outerTag = "h2" THEN <<<<"data-anchor", <<"h","2">>>>>> ELSE <<>>)
       \o (IF data.tag = "h2" THEN <<<<"data-heading", <<>>>>>> ELSE <<>>)

PermalinkPrefix == <<"P","e","r","m","a","l","i","n","k",":"," ">>

\* A plausible slip: only the empty string is tested
EmptyContentStrOnly(data) == data.kind = "str" /\ data.str = <<>>

\* isStr && !content || isArr && !content.length
EmptyContent(data) ==
  \/ data.kind = "str" /\ data.str = <<>>
  \/ data.kind = "arr" /\ data.arr = <<>>

RECURSIVE getHtml(_, _, _, _)
RECURSIVE getHtmlEach(_, _, _, _)

\* content.forEach(item => getHtml(item, ...)): the call for one item has
\* returned, with the output it was given and what it appended, before the
\* call for the next item begins
getHtmlEach(items, filter, outerTag, st) ==
  IF items = <<>> THEN st
  ELSE LET returned == getHtml(Head(items), filter, outerTag, st)
       IN  IF Len(returned.output) >= Len(st.output)
             THEN getHtmlEach(Tail(items), filter, outerTag, returned)
             ELSE st

getHtml(data, filter, outerTag, st) ==
  LET content == data.str
      tag == data.tag
      link == data.link
      isArr == data.kind = "arr"
      isStr == data.kind = "str"
      isHeading == tag # "" /\ IsHeadingTag(tag)
      isLink == link # <<>> /\ tag = "a"
      isHeadingLink == isLink /\ IsHeadingTag(outerTag) /\ isStr
  IN
  IF EmptyContent(data) THEN st
  ELSE
    LET hasId == isHeading /\ isStr
        id == IF hasId THEN UniqueId(getId(content), st.ids) ELSE <<>>
        st1 == IF ~hasId THEN st
               ELSE IF tag = "h1" THEN [st EXCEPT !.title = content]
               ELSE [st EXCEPT
                       !.ids = @ \cup {id},
                       !.headings = RegisterHeading(@,
                          [id |-> id, title |-> content, tag |-> tag, children |-> <<>>])]
        attr0 == (IF hasId THEN <<<<"id", id>>>> ELSE <<>>)
                 \o (IF isLink THEN <<<<"href", link>>>> ELSE <<>>)
                 \o (IF isHeadingLink THEN <<<<"aria-label", content>>>> ELSE <<>>)
        attr == ApplyFilterAttr(filter, attr0, data, outerTag)
        st2 == [st1 EXCEPT
                  !.calls = Append(@, [tag |-> tag, outerTag |-> outerTag]),
                  !.output = IF tag # "" THEN Append(@, OpenPiece(tag, attr)) ELSE @]
        st3 == IF isArr THEN getHtmlEach(data.arr, filter, outerTag, st2) ELSE st2
        st4 == IF ~isStr THEN st3
               ELSE LET t == [st3 EXCEPT !.output = Append(@,
                                 IF isHeadingLink THEN TextPiece("raw", <<"#">>)
                                 ELSE TextPiece("md", content))]
                    IN  IF isHeading
                          THEN getHtml(LinkNode(PermalinkPrefix \o content, <<"#">> \o id),
                                       filter, tag, t)
                          ELSE t
    IN  [st4 EXCEPT !.output = IF tag # "" THEN Append(@, ClosePiece(tag)) ELSE @]

(***************************************************************************)
(* The walk of one page by getHtml, as renderHtmlDocs starts it:           *)
(*   getHtml(data, filterAttr, '', title, headings)                        *)
(* where data = { content: [...] } has no tag.  One step walks the next    *)
(* top-level node of data.content (with everything nested in it).          *)
(***************************************************************************)
HeadingLevels == 1..4
HeadingTexts == { <<"X">>, <<"x">>, <<"X"," ","1">> }

HtmlNodes ==
  { StrNode(HTag(l), t) : l \in HeadingLevels, t \in HeadingTexts }
  \cup { StrNode("p", <<"X">>),
         StrNode("p", <<>>),
         StrNode("h2", <<>>),
         ArrNode("p", <<StrNode("strong", <<"T","y","p","e",":">>), ArrNode("code", <<>>)>>),
         ArrNode("div", <<StrNode("h3", <<"X">>), ArrNode("ul", <<>>)>>) }

HtmlIdle ==
  /\ hPage = <<>> /\ hFilter = "identity" /\ hSt = EmptyHtml /\ hDone = FALSE
  /\ mOutput = <<>>

NavIdle ==
  /\ nDocs = <<>> /\ nPc = "idle" /\ nIdx = 0 /\ nItems = <<>>
  /\ navigationSlugs = <<>> /\ navigationMap = <<>> /\ navigation = <<>> /\ nPassed = <<>>

DocsIdle ==
  /\ args = [url |-> <<>>, outDir |-> <<>>, index |-> FALSE]
  /\ renderType = "html" /\ callType = "html"
  /\ dPc = "idle" /\ dFiles = <<>> /\ jsdocItems = <<>>
  /\ sources = <<>> /\ exports = <<>> /\ docTypes = <<>> /\ docVars = <<>>
  /\ docFunctions = <<>> /\ docClasses = <<>> /\ unit = <<>> /\ indexMap = <<>>
  /\ result = <<>> /\ dOverflow = FALSE

HtmlInit ==
  /\ NavIdle
  /\ DocsIdle
  /\ hPage = <<>>
  /\ hFilter \in {"identity", "test"}
  /\ hSt = EmptyHtml
  /\ hDone = FALSE
  /\ mOutput = <<>>

\* content.forEach(item => getHtml(item, filterAttr, outerTag, ...)) of the outermost
\* call, and content.forEach(item => getMarkdown(item, itemTag, _output)) of the
\* outermost call of the Markdown walker on the same data
HtmlNode(node) ==
  /\ ~hDone
  /\ Len(hPage) < MaxNodes
  /\ hPage' = Append(hPage, node)
  /\ hSt' = LET st == IF hPage = <<>>
                        THEN [hSt EXCEPT !.calls = Append(@, [tag |-> "", outerTag |-> ""])]
                        ELSE hSt
            IN  getHtml(node, hFilter, "", st)
  /\ mOutput' = getMarkdown(node, "", mOutput)
  /\ UNCHANGED <<hFilter, hDone, nvars, dvars>>

\* the outermost call returns _output.ref
HtmlReturn ==
  /\ ~hDone
  /\ hPage # <<>>
  /\ hDone' = TRUE
  /\ UNCHANGED <<hPage, hFilter, hSt, mOutput, nvars, dvars>>

HtmlNext ==
  \/ \E node \in HtmlNodes : HtmlNode(node)
  \/ HtmlReturn

SpecHtml == HtmlInit /\ [][HtmlNext]_vars

(***************************************************************************)
(* What a page shows: the heading elements of the output, in order.        *)
(***************************************************************************)
Attr(attrs, key) ==
  LET i == CHOOSE j \in DOMAIN attrs : attrs[j][1] = key IN attrs[i][2]

HasAttr(attrs, key) == \E j \in DOMAIN attrs : attrs[j][1] = key

\* the opening tags of the heading elements, in document order
HeadingOpens(output) ==
  SelectSeq(output, LAMBDA q : q.k = "open" /\ IsHeadingTag(q.tag))

\* the heading-index entries, flattened in document order
RECURSIVE FlatHeadings(_)
FlatHeadings(hs) ==
  IF hs = <<>> THEN <<>>
  ELSE <<[id |-> Head(hs).id, title |-> Head(hs).title, tag |-> Head(hs).tag]>>
       \o FlatHeadings(Head(hs).children) \o FlatHeadings(Tail(hs))

\* the string-content headings among the nodes, in document order
RECURSIVE HeadingNodes(_)
HeadingNodes(nodes) ==
  IF nodes = <<>> THEN <<>>
  ELSE LET n == Head(nodes)
       IN  (IF n.kind = "arr" THEN HeadingNodes(n.arr)
            ELSE IF IsHeadingTag(n.tag) /\ n.str # <<>> THEN <<n>>
            ELSE <<>>)
           \o HeadingNodes(Tail(nodes))

(***************************************************************************)
(* Claims about the heading ids of one page.                               *)
(***************************************************************************)
PageHeadings == HeadingNodes(hPage)
PageOpens == HeadingOpens(hSt.output)
\* the id attribute of the i-th heading element of the page
ElementId(i) == Attr(PageOpens[i].attrs, "id")
Suffixed(base, n) == base \o <<"-">> \o ToStr(n)

\* the positions of the headings of levels 2-6 whose own slug is base
GroupOf(base) ==
  { i \in DOMAIN PageHeadings :
      PageHeadings[i].tag # "h1" /\ getId(PageHeadings[i].str) = base }

\* the i-th heading is the r-th of its group, counted from 0
RankIn(group, i) == Cardinality({ j \in group : j < i })

\* no other heading's own slug equals base-N
NoOtherSlugIsSuffixed(base) ==
  \A i \in DOMAIN PageHeadings :
    LET s == getId(PageHeadings[i].str)
    IN  s # base => \A n \in 1..MaxSuffix : s # Suffixed(base, n)

\* base is not the own slug of another heading followed by -N
BaseIsNotSuffixed(base) ==
  \A i \in DOMAIN PageHeadings :
    LET s == getId(PageHeadings[i].str)
    IN  s # base => \A n \in 1..MaxSuffix : base # Suffixed(s, n)

GroupIdsInOrder(base) ==
  \A i \in GroupOf(base) :
    ElementId(i) = IF RankIn(GroupOf(base), i) = 0 THEN base
                   ELSE Suffixed(base, RankIn(GroupOf(base), i))

\* the headings that enter the heading index: level 2, or deeper after a first h2
RegisteredPositions ==
  { i \in DOMAIN PageHeadings :
      /\ PageHeadings[i].tag # "h1"
      /\ \/ PageHeadings[i].tag = "h2"
         \/ \E j \in 1..(i - 1) : PageHeadings[j].tag = "h2" }

RECURSIVE IdsAt(_, _)
IdsAt(i, n) ==
  IF i > n THEN <<>>
  ELSE (IF i \in RegisteredPositions THEN <<ElementId(i)>> ELSE <<>>) \o IdsAt(i + 1, n)

IndexCarriesElementIds ==
  LET flat == FlatHeadings(hSt.headings)
  IN  [i \in DOMAIN flat |-> flat[i].id] = IdsAt(1, Len(PageHeadings))

PageSlugs == { getId(PageHeadings[i].str) : i \in DOMAIN PageHeadings }

\* C1: no two headings of one page, the h1 included, are given the same id
C1_HeadingIdsUnique ==
  \A i, j \in DOMAIN PageOpens : i # j => ElementId(i) # ElementId(j)

\* C2 as claimed: k headings of levels 2-6 with the same base slug, no other
\* heading's own slug being base-N, get base, base-1, ..., base-(k-1) in
\* document order, and the heading-index entries carry the element ids
C2_AsClaimed ==
  /\ \A base \in PageSlugs : NoOtherSlugIsSuffixed(base) => GroupIdsInOrder(base)
  /\ IndexCarriesElementIds

\* C2 as amended: the same, when moreover base itself is not the own slug of
\* another heading followed by -N
C2_SuffixesInFirstSeenOrder ==
  /\ \A base \in PageSlugs :
       NoOtherSlugIsSuffixed(base) /\ BaseIsNotSuffixed(base) => GroupIdsInOrder(base)
  /\ IndexCarriesElementIds

\* three headings of levels 2-6 share a base slug and got base, base-1, base-2
C2_Witness ==
  /\ hDone
  /\ \E base \in PageSlugs :
       /\ NoOtherSlugIsSuffixed(base) /\ BaseIsNotSuffixed(base)
       /\ Cardinality(GroupOf(base)) = 3
       /\ \E i \in GroupOf(base) : ElementId(i) = Suffixed(base, 2)
       /\ Len(FlatHeadings(hSt.headings)) = 3


(***************************************************************************)
(* Claims about the two walkers on one tree.                               *)
(***************************************************************************)
\* the nodes of a tree, at any depth, in document order
RECURSIVE NodesOf(_)
NodesOf(nodes) ==
  IF nodes = <<>> THEN <<>>
  ELSE <<Head(nodes)>>
       \o (IF Head(nodes).kind = "arr" THEN NodesOf(Head(nodes).arr) ELSE <<>>)
       \o NodesOf(Tail(nodes))

\* the walker appends something for the node or for what it holds
MarkdownEmits(node) == getMarkdown(node, "", <<>>) # <<>>
HtmlEmits(node) == getHtml(node, hFilter, "", EmptyHtml).output # <<>>

\* the heading texts of the Markdown output, in order: what follows the "# " of
\* a heading symbol up to the next symbol that begins a line (a line feed, or
\* the two spaces and the line feed of a paragraph or list item) or the end
RECURSIVE MarkdownHeadings(_, _, _)
MarkdownHeadings(out, i, acc) ==
  IF i > Len(out) THEN acc
  ELSE IF out[i] = "#" /\ i < Len(out) /\ out[i + 1] = " "
    THEN LET ends == { j \in (i + 2)..Len(out) :
                         \/ out[j] = "\n"
                         \/ /\ j + 2 <= Len(out)
                            /\ SubSeq(out, j, j + 2) = <<" ", " ", "\n">> }
             stop == IF ends = {} THEN Len(out) + 1 ELSE Min(ends)
         IN  MarkdownHeadings(out, stop, Append(acc, SubSeq(out, i + 2, stop - 1)))
  ELSE MarkdownHeadings(out, i + 1, acc)

\* C11: Format parity.  The Markdown walker and the HTML walker, given the same
\* tree, emit the same headings in the same order, and a node for which one of
\* them emits something is not dropped by the other.
C11_FormatParity ==
  /\ MarkdownHeadings(mOutput, 1, <<>>)
       = [i \in DOMAIN PageHeadings |-> PageHeadings[i].str]
  /\ \A i \in DOMAIN NodesOf(hPage) :
       MarkdownEmits(NodesOf(hPage)[i]) <=> HtmlEmits(NodesOf(hPage)[i])
  /\ (mOutput = <<>>) <=> (hSt.output = <<>>)

(***************************************************************************)
(* Claims about the nodes getHtml emits and the calls of the attribute     *)
(* filter.                                                                 *)
(***************************************************************************)
\* the content of the node is the empty string or an empty array
IsEmptyNode(n) == (n.kind = "str" /\ n.str = <<>>) \/ (n.kind = "arr" /\ n.arr = <<>>)

\* the call of the filter for the data of the outermost call, which has no tag
RootCall == [tag |-> "", outerTag |-> ""]

\* the calls of the filter a walk of `nodes` under an element `parentTag` is to
\* make, in order: one per node that is not empty, with the tag of its parent,
\* its children next, and the permalink of a heading with the heading's tag
RECURSIVE CallsOf(_, _)
CallsOf(nodes, parentTag) ==
  IF nodes = <<>> THEN <<>>
  ELSE LET n == Head(nodes)
       IN  (IF IsEmptyNode(n) THEN <<>>
            ELSE <<[tag |-> n.tag, outerTag |-> parentTag]>>
                 \o (IF n.kind = "arr" THEN CallsOf(n.arr, n.tag)
                     ELSE IF IsHeadingTag(n.tag) THEN <<[tag |-> "a", outerTag |-> n.tag]>>
                     ELSE <<>>))
           \o CallsOf(Tail(nodes), parentTag)

PageCalls == IF hPage = <<>> THEN <<>> ELSE <<RootCall>> \o CallsOf(hPage, "")

TagsOf(calls) == [i \in DOMAIN calls |-> calls[i].tag]

\* the tags of the opening and of the closing tags of the output
OpenTags(output) == TagsOf(SelectSeq(output, LAMBDA q : q.k = "open"))
CloseTags(output) == TagsOf(SelectSeq(output, LAMBDA q : q.k = "close"))

\* the ids of the heading elements of levels 2-6 on the page
RegisteredIds ==
  { ElementId(i) : i \in { j \in DOMAIN PageOpens : PageOpens[j].tag # "h1" } }

\* nothing of an empty node is on the page: the filter was called for the
\* nodes that are not empty and for no other, they alone have an opening and a
\* closing tag, and the ids and the heading index are those of the heading
\* elements
EmptyNodesLeaveNothing ==
  /\ TagsOf(hSt.calls) = TagsOf(PageCalls)
  /\ OpenTags(hSt.output) = SelectSeq(TagsOf(PageCalls), LAMBDA t : t # "")
  /\ Len(CloseTags(hSt.output)) = Len(OpenTags(hSt.output))
  /\ Len(PageOpens) = Len(PageHeadings)
  /\ hSt.ids = RegisteredIds
  /\ \A k \in DOMAIN FlatHeadings(hSt.headings) :
       FlatHeadings(hSt.headings)[k].id \in RegisteredIds

\* the walk of an empty top-level node changes nothing (the first node of a
\* page comes with the call of the filter for the outermost data)
EmptyNodeStep ==
  \A n \in HtmlNodes :
    (IsEmptyNode(n) /\ hPage' = Append(hPage, n)) =>
      hSt' = IF hPage = <<>> THEN [hSt EXCEPT !.calls = <<RootCall>>] ELSE hSt

\* C22: a node whose content is the empty string or an empty array is skipped
\* entirely by getHtml: no opening or closing tag, no call of the attribute
\* filter, no id, no heading-index entry, and the output is unchanged.
C22_EmptyNodesSkipped == []EmptyNodesLeaveNothing /\ [][EmptyNodeStep]_vars

\* a page with an empty paragraph, an empty heading and an element that holds
\* an empty array next to a heading, walked to its end
C22_Witness ==
  /\ hDone
  /\ StrNode("h2", <<>>) \in Range(hPage)
  /\ StrNode("p", <<>>) \in Range(hPage)
  /\ \E i \in DOMAIN hPage :
       /\ hPage[i].kind = "arr"
       /\ \E k \in DOMAIN hPage[i].arr : IsEmptyNode(hPage[i].arr[k])
  /\ hSt.output # <<>>

\* C23: the attribute filter is called exactly once for every node getHtml
\* emits, before the node is serialized, and its third argument is the tag of
\* the parent element of the node, at any depth.
C23_FilterGetsParentTag == hSt.calls = PageCalls

(***************************************************************************)
(* Claims about the heading index and the title of one page.               *)
(***************************************************************************)
\* every entry nested under `entry`, at any depth, is of a deeper level than
\* the entry it is a child of
RECURSIVE ChildrenDeeper(_)
ChildrenDeeper(entry) ==
  \A k \in DOMAIN entry.children :
    /\ headingInfo[entry.children[k].tag] > headingInfo[entry.tag]
    /\ ChildrenDeeper(entry.children[k])

\* C15: the heading index mirrors the nesting of the document.  Its top-level
\* entries are the level-2 headings, and every entry nested as a child has a
\* level strictly greater than the level of its parent.
C15_IndexMirrorsNesting ==
  \A k \in DOMAIN hSt.headings :
    /\ hSt.headings[k].tag = "h2"
    /\ ChildrenDeeper(hSt.headings[k])

\* C16: every heading of level 2-6 with string content that getHtml renders on
\* the page is in the heading index of the page exactly once, whatever the
\* sequence of levels.
C16_EveryHeadingRegisteredOnce ==
  \A i \in DOMAIN PageOpens :
    PageOpens[i].tag # "h1" =>
      Cardinality({ k \in DOMAIN FlatHeadings(hSt.headings) :
                      FlatHeadings(hSt.headings)[k].id = ElementId(i) }) = 1

\* the positions of the h1 headings of the page
TitlePositions == { i \in DOMAIN PageHeadings : PageHeadings[i].tag = "h1" }

\* C17: the title getHtml returns is the text of the first h1 of the page,
\* later h1 nodes do not change it, and no h1 is a heading-index entry.
C17_TitleIsFirstH1 ==
  /\ TitlePositions # {} => hSt.title = PageHeadings[Min(TitlePositions)].str
  /\ \A k \in DOMAIN FlatHeadings(hSt.headings) :
       FlatHeadings(hSt.headings)[k].tag # "h1"
(***************************************************************************)
(* renderHtmlDocs: the pages, the navigation and the written files.        *)
(***************************************************************************)
\* the characters of the model in UTF-16 code unit order
CharOrder == <<" ", "#", "-", ".", "/">> \o DigitChars \o <<":", "<", ">">>
             \o UpperChars \o <<"_">> \o LowerChars \o <<"|">>
CharCode(c) == CHOOSE i \in DOMAIN CharOrder : CharOrder[i] = c

\* a < b as Array.prototype.sort compares two strings by default
RECURSIVE StrLess(_, _)
StrLess(a, b) ==
  IF b = <<>> THEN FALSE
  ELSE IF a = <<>> THEN TRUE
  ELSE IF Head(a) = Head(b) THEN StrLess(Tail(a), Tail(b))
  ELSE CharCode(Head(a)) < CharCode(Head(b))

\* the characters of the model in the order of the collation localeCompare
\* uses: white space, punctuation, symbols, digits, letters (a letter and its
\* capital have one place)
CollationOrder ==
  <<" ", "_", "-", ",", ";", ":", "!", "?", ".", "'", "(", ")", "[", "]", "{", "}",
    "@", "*", "/", "&", "#", "%", "^", "+", "<", "=", ">", "|", "~", "$">>
  \o DigitChars \o LowerChars

\* the first level of the collation: -1, 0 or 1 as a sorts before, with or
\* after b when capitals count as small letters
RECURSIVE PrimaryCompare(_, _)
PrimaryCompare(a, b) ==
  IF a = <<>> /\ b = <<>> THEN 0
  ELSE IF a = <<>> THEN 0 - 1
  ELSE IF b = <<>> THEN 1
  ELSE LET weight(c) == CHOOSE i \in DOMAIN CollationOrder : CollationOrder[i] = LowerChar(c)
       IN  IF weight(Head(a)) < weight(Head(b)) THEN 0 - 1
           ELSE IF weight(Head(a)) > weight(Head(b)) THEN 1
           ELSE PrimaryCompare(Tail(a), Tail(b))

\* a.localeCompare(b): the first level decides; on a tie the first place where
\* the two differ in case does, the small letter sorting first
localeCompare(a, b) ==
  IF PrimaryCompare(a, b) # 0 THEN PrimaryCompare(a, b)
  ELSE IF a = b THEN 0
  ELSE LET at == CHOOSE i \in DOMAIN a : a[i] # b[i] /\ \A j \in 1..(i - 1) : a[j] = b[j]
       IN  IF IsUpper(b[at]) THEN 0 - 1 ELSE 1

RECURSIVE InsertSorted(_, _)
InsertSorted(sorted, x) ==
  IF sorted = <<>> THEN <<x>>
  ELSE IF StrLess(x, Head(sorted)) THEN <<x>> \o sorted
  ELSE <<Head(sorted)>> \o InsertSorted(Tail(sorted), x)

\* Array.prototype.sort() on strings
RECURSIVE SortStrings(_)
SortStrings(seq) ==
  IF seq = <<>> THEN <<>>
  ELSE InsertSorted(SortStrings(SubSeq(seq, 1, Len(seq) - 1)), seq[Len(seq)])

\* String.prototype.replace(pattern, replacement) with a string pattern: the first match
RECURSIVE ReplaceFirst(_, _, _)
ReplaceFirst(s, pat, rep) ==
  IF Len(s) < Len(pat) \/ pat = <<>> THEN s
  ELSE IF StartsWith(s, pat) THEN rep \o SubSeq(s, Len(pat) + 1, Len(s))
  ELSE <<Head(s)>> \o ReplaceFirst(Tail(s), pat, rep)

\* .replace(/\//g, '-')
SlashesToHyphens(s) == [i \in DOMAIN s |-> IF s[i] = "/" THEN "-" ELSE s[i]]

EmptyMap == [x \in {} |-> x]
MapSet(m, k, v) == [x \in DOMAIN m \cup {k} |-> IF x = k THEN v ELSE m[x]]
MapDelete(m, k) == [x \in DOMAIN m \ {k} |-> m[x]]

SrcDir == <<"s","r","c">>
\* navigationMap.get(s) of a key that was deleted
Undefined == [undefined |-> TRUE]
NavItem(id, title, link) ==
  [undefined |-> FALSE, id |-> id, title |-> title, link |-> link, children |-> <<>>]

\* A plausible slip: a child stays in the map and is also pushed as a top-level item
CollectChildrenKeep(slugs, slug, map, children) ==
  IF slugs = <<>> THEN [map |-> map, children |-> children]
  ELSE [map |-> map,
        children |-> children \o
          SelectSeq([i \in DOMAIN slugs |->
                       IF slugs[i] \in DOMAIN map THEN map[slugs[i]] ELSE Undefined],
                    LAMBDA it : ~it.undefined /\ StartsWith(it.link, slug) /\ it.link # slug)]

\* One pass of the forEach over navigationSlugs for `slug`: the matching
\* entries are pushed to children and deleted from the map.
RECURSIVE CollectChildren(_, _, _, _)
CollectChildren(slugs, slug, map, children) ==
  IF slugs = <<>> THEN [map |-> map, children |-> children]
  ELSE LET s == Head(slugs)
       IN  IF StartsWith(s, slug) /\ s # slug
             THEN CollectChildren(Tail(slugs), slug, MapDelete(map, s),
                    Append(children, IF s \in DOMAIN map THEN map[s] ELSE Undefined))
             ELSE CollectChildren(Tail(slugs), slug, map, children)

\* for (const slug of navigationSlugs) { ... } after navigationSlugs.sort(); the
\* item pushed to navigation is the object navigationMap holds, so its children
\* show in the map too
RECURSIVE AssembleNavigation(_, _, _, _)
AssembleNavigation(rest, slugs, map, nav) ==
  IF rest = <<>> THEN [map |-> map, navigation |-> nav]
  ELSE LET slug == Head(rest)
           hasItem == slug \in DOMAIN map
           got == CollectChildren(slugs, slug, map, <<>>)
       IN  IF ~hasItem THEN AssembleNavigation(Tail(rest), slugs, got.map, nav)
           ELSE AssembleNavigation(Tail(rest), slugs,
                  MapSet(got.map, slug, [map[slug] EXCEPT !.children = got.children]),
                  Append(nav, [map[slug] EXCEPT !.children = got.children]))

\* the source directories of the output units, as getDocs keys its result
DirUniverse ==
  { SrcDir,
    SrcDir \o <<"/","a">>,
    SrcDir \o <<"/","a","/","b">>,
    SrcDir \o <<"/","a","/","b","/","c">>,
    SrcDir \o <<"/","a","b">>,
    SrcDir \o <<"/","b">> }

RECURSIVE LastSegment(_)
LastSegment(dir) ==
  IF \E i \in DOMAIN dir : dir[i] = "/"
    THEN LastSegment(Tail(dir))
    ELSE dir

\* one entry of the getDocs result: an h1 with the directory title and one section
DocsEntry(dir) ==
  [dir |-> dir,
   content |-> <<StrNode("h1", LastSegment(dir)), StrNode("h2", <<"X">>)>>]

NavInit ==
  /\ HtmlIdle
  /\ DocsIdle
  /\ nDocs = <<>>
  /\ nPc = "docs"
  /\ nIdx = 0
  /\ nItems = <<>>
  /\ navigationSlugs = <<>>
  /\ navigationMap = EmptyMap
  /\ navigation = <<>>
  /\ nPassed = <<>>

\* getDocs returns one more entry (Object.entries keeps the insertion order)
NavDocsEntry(dir) ==
  /\ nPc = "docs"
  /\ Len(nDocs) < MaxDirs
  /\ \A i \in DOMAIN nDocs : nDocs[i].dir # dir
  /\ nDocs' = Append(nDocs, DocsEntry(dir))
  /\ UNCHANGED <<nPc, nIdx, nItems, navigationSlugs, navigationMap, navigation, nPassed, hvars, dvars>>

NavDocsDone ==
  /\ nPc = "docs"
  /\ nPc' = "pages"
  /\ UNCHANGED <<nDocs, nIdx, nItems, navigationSlugs, navigationMap, navigation, nPassed, hvars, dvars>>

\* one turn of: for (const [dir, data] of docsEntries) { ... }
NavPage ==
  /\ nPc = "pages"
  /\ nIdx < Len(nDocs)
  /\ LET entry == nDocs[nIdx + 1]
         relDir == ReplaceFirst(entry.dir, SrcDir, <<>>)
         slug == <<"/">> \o relDir \o <<"/">>
         id == SlashesToHyphens(relDir)
         rendered == getHtml(ArrNode("", entry.content), "identity", "", EmptyHtml)
     IN  /\ nItems' = Append(nItems,
              [path |-> relDir \o <<"/","i","n","d","e","x",".","h","t","m","l">>,
               output |-> rendered.output, id |-> id, title |-> rendered.title,
               slug |-> slug, headings |-> rendered.headings])
         /\ IF relDir # <<>>
              THEN /\ navigationSlugs' = Append(navigationSlugs, slug)
                   /\ navigationMap' = MapSet(navigationMap, slug,
                                              NavItem(id, rendered.title, slug))
              ELSE UNCHANGED <<navigationSlugs, navigationMap>>
  /\ nIdx' = nIdx + 1
  /\ UNCHANGED <<nDocs, nPc, navigation, nPassed, hvars, dvars>>

\* navigationSlugs.sort() and the loop that builds navigation
NavAssemble ==
  /\ nPc = "pages"
  /\ nIdx = Len(nDocs)
  /\ LET sorted == SortStrings(navigationSlugs)
         built == AssembleNavigation(sorted, sorted, navigationMap, <<>>)
     IN  /\ navigationSlugs' = sorted
         /\ navigationMap' = built.map
         /\ navigation' = built.navigation
  /\ nPc' = "write"
  /\ nIdx' = 0
  /\ UNCHANGED <<nDocs, nItems, nPassed, hvars, dvars>>

\* one turn of: for (const [path, data] of items) { filterOutput(...); writeFile(...) }
NavWrite ==
  /\ nPc = "write"
  /\ nIdx < Len(nItems)
  /\ nPassed' = Append(nPassed, [path |-> nItems[nIdx + 1].path, navigation |-> navigation])
  /\ nIdx' = nIdx + 1
  /\ UNCHANGED <<nDocs, nPc, nItems, navigationSlugs, navigationMap, navigation, hvars, dvars>>

NavReturn ==
  /\ nPc = "write"
  /\ nIdx = Len(nItems)
  /\ nPc' = "done"
  /\ UNCHANGED <<nDocs, nIdx, nItems, navigationSlugs, navigationMap, navigation, nPassed, hvars, dvars>>

NavNext ==
  \/ \E dir \in DirUniverse : NavDocsEntry(dir)
  \/ NavDocsDone
  \/ NavPage
  \/ NavAssemble
  \/ NavWrite
  \/ NavReturn

SpecNav == NavInit /\ [][NavNext]_vars

(***************************************************************************)
(* Claims about the navigation forest.                                     *)
(***************************************************************************)
\* the slugs of the pages that enter the navigation
NavSlugs == { navigationSlugs[i] : i \in DOMAIN navigationSlugs }

\* the proper path-prefixes of slug among the other slugs
Ancestors(slug) == { a \in NavSlugs : a # slug /\ StartsWith(slug, a) }

\* the nearest (longest) prefix ancestor
Nearest(slug) == CHOOSE a \in Ancestors(slug) : \A b \in Ancestors(slug) : Len(b) <= Len(a)

\* every item of the forest at any depth
RECURSIVE ForestItems(_)
ForestItems(items) ==
  IF items = <<>> THEN <<>>
  ELSE <<Head(items)>>
       \o (IF Head(items).undefined THEN <<>> ELSE ForestItems(Head(items).children))
       \o ForestItems(Tail(items))

ChildLinks(item) ==
  { item.children[i].link : i \in { j \in DOMAIN item.children : ~item.children[j].undefined } }

TopLevelLinks == [i \in DOMAIN navigation |-> navigation[i].link]

\* C8: after the sort, a slug with a path-prefix among the other slugs is a
\* child of its nearest (longest) prefix ancestor, and the slugs without one
\* are the top-level items, in sorted order
C8_NestedUnderNearestAncestor ==
  nPc \in {"write", "done"} =>
    /\ \A slug \in NavSlugs :
         Ancestors(slug) # {} =>
           \E i \in DOMAIN ForestItems(navigation) :
             LET item == ForestItems(navigation)[i]
             IN  ~item.undefined /\ item.link = Nearest(slug) /\ slug \in ChildLinks(item)
    /\ TopLevelLinks = SelectSeq(navigationSlugs, LAMBDA s : Ancestors(s) = {})

(***************************************************************************)
(* getDocs: the source files, the registries and the output units.         *)
(*                                                                         *)
(* A source file is [dir, isRes, items]: dirname(file), whether the file   *)
(* is one of resultFiles, and what jsdoc.explain returns for it.  sources  *)
(* is the Map of the same name as the sequence of its [dir, items] entries *)
(* in insertion order, result the object of the same name as the sequence  *)
(* of its [dir, content] entries.  unit holds the variables the loop over  *)
(* sources declares for one directory; unit.i is the position in sources   *)
(* and unit.j the position in dirDocItems.                                 *)
(***************************************************************************)
\* a record of jsdoc.explain with no field set
RawItem ==
  [name |-> <<>>, kind |-> "", dir |-> <<>>, filenameOut |-> <<>>, description |-> <<>>,
   classdesc |-> <<>>, params |-> None, returns |-> None, properties |-> None,
   yields |-> None, type |-> None, augments |-> None, examples |-> None,
   memberof |-> <<>>, undocumented |-> FALSE, private |-> FALSE, export |-> FALSE,
   tags |-> <<>>]

UpperCharOf(c) ==
  IF c \in Range(LowerChars)
    THEN UpperChars[CHOOSE i \in DOMAIN LowerChars : LowerChars[i] = c]
    ELSE c

\* .replace(/([a-z])([A-Z])/g, '$1 $2')
RECURSIVE SplitCamel(_)
SplitCamel(s) ==
  IF Len(s) < 2 THEN s
  ELSE IF s[1] \in Range(LowerChars) /\ IsUpper(s[2])
    THEN <<s[1], " ">> \o SplitCamel(Tail(s))
  ELSE <<s[1]>> \o SplitCamel(Tail(s))

titleCase(value) ==
  LET s == SplitCamel(value)
  IN  IF s = <<>> THEN s ELSE <<UpperCharOf(s[1])>> \o Tail(s)

\* basename of a path without a trailing slash
basename(path) == LastSegment(path)

\* the position of the first line feed of s, 0 when there is none
FirstNewline(s) ==
  IF \E i \in DOMAIN s : s[i] = "\n"
    THEN CHOOSE i \in DOMAIN s : s[i] = "\n" /\ \A j \in 1..(i - 1) : s[j] # "\n"
    ELSE 0

\* the number of white space characters s begins with
LeadingSpaces(s) ==
  IF \E i \in DOMAIN s : ~IsSpace(s[i])
    THEN (CHOOSE i \in DOMAIN s : ~IsSpace(s[i]) /\ \A j \in 1..(i - 1) : IsSpace(s[j])) - 1
    ELSE Len(s)

\* desc.match(/^(?:title:\s*(.+?)\n)?([\s\S]*)$/): [title, desc]
matchTitle(desc) ==
  LET after == SubSeq(desc, 7, Len(desc))
      restAt(k) == SubSeq(after, k + 1, Len(after))
      ks == {k \in 0..LeadingSpaces(after) : FirstNewline(restAt(k)) >= 2}
  IN  IF StartsWith(desc, <<"t","i","t","l","e",":">>) /\ ks # {}
        THEN LET k == CHOOSE m \in ks : \A l \in ks : l <= m
                 rest == restAt(k)
                 p == FirstNewline(rest)
             IN  [title |-> SubSeq(rest, 1, p - 1), desc |-> SubSeq(rest, p + 1, Len(rest))]
        ELSE [title |-> <<>>, desc |-> desc]

\* sources.get(dir) || []
SourcesGet(src, dir) ==
  IF \E i \in DOMAIN src : src[i].dir = dir
    THEN src[CHOOSE i \in DOMAIN src : src[i].dir = dir].items
    ELSE <<>>

\* sources.set(dir, items): an existing key keeps its place
SourcesSet(src, dir, items) ==
  IF \E i \in DOMAIN src : src[i].dir = dir
    THEN [i \in DOMAIN src |-> IF src[i].dir = dir THEN [dir |-> dir, items |-> items]
                                ELSE src[i]]
    ELSE Append(src, [dir |-> dir, items |-> items])

\* allDocItems.filter(item => item.meta?.code?.name?.includes('export')).length
ExportCount(items) == Cardinality({i \in DOMAIN items : items[i].export})

\* { name: memberof, type: [], members: [] }
Placeholder(memberof, ref) ==
  [NoInfo EXCEPT !.keys = {"name", "type", "members"}, !.ref = ref,
                 !.name = memberof, !.type = <<>>, !.members = Some(<<>>)]

\* docClasses.get(memberof)?.members?.push(info): the object is the one docTypes
\* holds when the two entries have the same identity
PushMember(reg, memberof, info) ==
  LET class == reg.docClasses[memberof]
      pushed == [class EXCEPT !.members = Some(Append(@[1], info))]
  IN  IF class.members = None THEN reg
      ELSE [reg EXCEPT
              !.docClasses = MapSet(@, memberof, pushed),
              !.docTypes = [n \in DOMAIN @ |-> IF @[n].ref = class.ref THEN pushed ELSE @[n]]]

\* A plausible slip: a later class record replaces what was accumulated
ClassMergeReplace(classInfo, reg, ref) == classInfo

\* { ...classInfo, ...jsDocClass } with newInfo.type = classInfo.type
ClassMerge(classInfo, reg, ref) ==
  IF classInfo.name \in DOMAIN reg.docClasses
    THEN [Spread(classInfo, reg.docClasses[classInfo.name], ref)
            EXCEPT !.type = classInfo.type]
    ELSE classInfo

\* A plausible slip: the access and undocumented flags are not looked at
SuppressedNever(item) == FALSE

\* access === 'private' || undocumented
Suppressed(item) == item.private \/ item.undocumented

\* One turn of jsdocItems.forEach, item being the i-th record.
\* reg is [docTypes, docVars, docFunctions, docClasses].
RegisterItem(reg, item, i) ==
  LET isClassMember == item.memberof # <<>>
      ref == Some(2 * i)
      r1 == IF isClassMember /\ item.memberof \notin DOMAIN reg.docClasses
              THEN [reg EXCEPT !.docClasses =
                      MapSet(@, item.memberof, Placeholder(item.memberof, Some(2 * i + 1)))]
              ELSE reg
  IN
  IF Suppressed(item) THEN reg
  ELSE IF item.kind = "typedef" /\ item.type # None
    THEN [r1 EXCEPT !.docTypes = MapSet(@, item.name, getInfo(item, "typedef", ref))]
  ELSE IF item.kind = "class"
    THEN LET newInfo == ClassMerge(getInfo(item, "class", ref), r1, ref)
         IN  [r1 EXCEPT !.docClasses = MapSet(@, item.name, newInfo),
                        !.docTypes = MapSet(@, item.name, newInfo)]
  ELSE IF item.kind = "constant"
    THEN [r1 EXCEPT !.docVars = MapSet(@, item.name, getInfo(item, "typedef", ref))]
  ELSE IF item.kind = "member"
    THEN IF isClassMember THEN PushMember(r1, item.memberof, getInfo(item, "typedef", ref))
         ELSE [r1 EXCEPT !.docVars = MapSet(@, item.name, getInfo(item, "typedef", ref))]
  ELSE IF item.kind = "function"
    THEN IF isClassMember THEN PushMember(r1, item.memberof, getInfo(item, "function", ref))
         ELSE [r1 EXCEPT !.docFunctions = MapSet(@, item.name, getInfo(item, "function", ref))]
  ELSE r1

\* jsdocItems.forEach(item => { ... })
RECURSIVE RegisterAll(_, _, _)
RegisterAll(reg, items, i) ==
  IF i > Len(items) THEN reg
  ELSE RegisterAll(RegisterItem(reg, items[i], i), items, i + 1)

EmptyRegistries ==
  [docTypes |-> EmptyMap, docVars |-> EmptyMap, docFunctions |-> EmptyMap,
   docClasses |-> EmptyMap]

NoGuide == [isArr |-> FALSE, str |-> <<>>, arr |-> <<>>]

\* the variables the loop over sources declares for the i-th directory
NewUnit(i) ==
  [i |-> i, j |-> 1, vars |-> <<>>, types |-> <<>>, classes |-> <<>>, functions |-> <<>>,
   usedVars |-> {}, usedTypes |-> {}, usedClasses |-> {}, usedFunctions |-> {},
   title |-> <<>>, desc |-> <<>>, guide |-> NoGuide, hasIndex |-> FALSE]

\* A plausible slip: usedTypes is declared outside of the loop over sources
NextUnitKeepsUsed(u) == [NewUnit(u.i + 1) EXCEPT !.usedTypes = u.usedTypes]

\* the declarations at the top of the loop body, for the directory after that
\* of u
NextUnit(u) == NewUnit(u.i + 1)

\* the end of one turn of the loop over dirDocItems:
\* [unit, err, overflow, awaits]
dirDocItemEnd(u, st) ==
  [unit |-> [u EXCEPT !.j = @ + 1], err |-> st.err, overflow |-> st.overflow,
   awaits |-> st.awaits]

\* the kind === 'file' branch, g being what normalizeExamples returned.  A
\* record without a description has desc undefined: desc?.match(regex) is
\* undefined and match[1] throws a TypeError.
dirDocItemFile(u, item, g) ==
  IF item.description = <<>>
    THEN dirDocItemEnd(u, [err |-> TRUE, overflow |-> FALSE, awaits |-> 0])
  ELSE
  dirDocItemEnd([u EXCEPT !.title = matchTitle(item.description).title,
                          !.desc = matchTitle(item.description).desc,
                          !.guide = [isArr |-> g.isArr, str |-> g.str, arr |-> g.arr]],
                [types |-> u.types, usedTypes |-> u.usedTypes, err |-> g.err,
                 overflow |-> FALSE,
                 awaits |-> g.awaits + (IF item.examples # None THEN 1 ELSE 0)])

\* docTypes.get(name), docVars.get(name), docFunctions.get(name) or
\* docClasses.get(name), grp being one of the four
dirDocItemInfo(reg, grp, name) ==
  LET map == CASE grp = "types" -> reg.docTypes
               [] grp = "vars" -> reg.docVars
               [] grp = "functions" -> reg.docFunctions
               [] OTHER -> reg.docClasses
  IN  IF name \in DOMAIN map THEN Some(map[name]) ELSE None

\* usedTypes, usedVars, usedFunctions or usedClasses of the unit
dirDocItemUsed(u, grp) ==
  CASE grp = "types" -> u.usedTypes
    [] grp = "vars" -> u.usedVars
    [] grp = "functions" -> u.usedFunctions
    [] OTHER -> u.usedClasses

\* A plausible slip: the section of a type is put in front of what the types
\* array holds already
dirDocItemPushFront(u, grp, name, r) ==
  dirDocItemEnd(
    CASE grp = "types" -> [u EXCEPT !.types = r.content \o r.st.types,
                                    !.usedTypes = r.st.usedTypes]
      [] grp = "vars" -> [u EXCEPT !.usedVars = @ \cup {name},
                                   !.vars = @ \o r.content,
                                   !.types = r.st.types,
                                   !.usedTypes = r.st.usedTypes]
      [] grp = "functions" -> [u EXCEPT !.usedFunctions = @ \cup {name},
                                        !.functions = @ \o r.content,
                                        !.types = r.st.types,
                                        !.usedTypes = r.st.usedTypes]
      [] OTHER -> [u EXCEPT !.usedClasses = @ \cup {name},
                            !.classes = @ \o r.content,
                            !.types = r.st.types,
                            !.usedTypes = r.st.usedTypes],
    [r.st EXCEPT !.awaits = @ + 1])

\* types.push(...), vars.push(...), functions.push(...) or classes.push(...) of
\* what getTypeContent returned, r
dirDocItemPush(u, grp, name, r) ==
  dirDocItemEnd(
    CASE grp = "types" -> [u EXCEPT !.types = r.st.types \o r.content,
                                    !.usedTypes = r.st.usedTypes]
      [] grp = "vars" -> [u EXCEPT !.usedVars = @ \cup {name},
                                   !.vars = @ \o r.content,
                                   !.types = r.st.types,
                                   !.usedTypes = r.st.usedTypes]
      [] grp = "functions" -> [u EXCEPT !.usedFunctions = @ \cup {name},
                                        !.functions = @ \o r.content,
                                        !.types = r.st.types,
                                        !.usedTypes = r.st.usedTypes]
      [] OTHER -> [u EXCEPT !.usedClasses = @ \cup {name},
                            !.classes = @ \o r.content,
                            !.types = r.st.types,
                            !.usedTypes = r.st.usedTypes],
    [r.st EXCEPT !.awaits = @ + 1])

\* one turn of the loop over dirDocItems for an item that is neither private
\* nor undocumented, hasIndex being set already; grp names the registry an
\* item of this kind is looked up in
dirDocItemKind(item, u, reg, env, dir, single, grp) ==
  IF item.kind = "file"
    THEN dirDocItemFile(u, item,
           IF item.examples # None
             THEN normalizeExamples(item.examples[1], dir, "h2", env, 0)
             ELSE [isArr |-> u.guide.isArr, str |-> u.guide.str, arr |-> u.guide.arr,
                   err |-> FALSE, awaits |-> 0])
  ELSE IF grp # "none" /\ dirDocItemInfo(reg, grp, item.name) # None
          /\ item.name \notin dirDocItemUsed(u, grp)
    THEN dirDocItemPush(u, grp, item.name,
           getTypeContent(dirDocItemInfo(reg, grp, item.name)[1],
                          IF grp \in {"types", "vars"} THEN "typedef" ELSE item.kind,
                          env,
                          [types |-> u.types,
                           usedTypes |-> IF grp = "types" THEN u.usedTypes \cup {item.name}
                                         ELSE u.usedTypes,
                           err |-> FALSE, overflow |-> FALSE, awaits |-> 0],
                          dir,
                          IF grp = "types" THEN 2 ELSE IF single THEN 0 ELSE 1,
                          MaxDepth))
  ELSE dirDocItemEnd(u, [err |-> FALSE, overflow |-> FALSE, awaits |-> 0])

\* One turn of the loop over dirDocItems: [unit, err, overflow, awaits]
dirDocItem(item, u, reg, env, dir, single, isIndex) ==
  IF Suppressed(item) THEN dirDocItemEnd(u, [err |-> FALSE, overflow |-> FALSE, awaits |-> 0])
  ELSE dirDocItemKind(item,
                      IF isIndex /\ item.tags # <<>> /\ item.tags[1] = "index"
                        THEN [u EXCEPT !.hasIndex = TRUE] ELSE u,
                      reg, env, dir, single,
                      CASE item.kind = "typedef" -> "types"
                        [] item.kind \in {"member", "constant"} -> "vars"
                        [] item.kind = "function" -> "functions"
                        [] item.kind = "class" -> "classes"
                        [] OTHER -> "none")

\* A plausible slip: a directory is emitted whatever its arrays hold
OmittedNever(hasVars, hasTypes, hasClasses, hasFunctions, isIndex) == FALSE

\* !hasVars && !hasTypes && !hasClasses && !hasFunctions && !isIndex
Omitted(hasVars, hasTypes, hasClasses, hasFunctions, isIndex) ==
  ~hasVars /\ ~hasTypes /\ ~hasClasses /\ ~hasFunctions /\ ~isIndex

\* values.sort((a, b) => a.title.localeCompare(b.title))
RECURSIVE InsertByTitle(_, _)
InsertByTitle(sorted, x) ==
  IF sorted = <<>> THEN <<x>>
  ELSE IF localeCompare(x.title, Head(sorted).title) < 0 THEN <<x>> \o sorted
  ELSE <<Head(sorted)>> \o InsertByTitle(Tail(sorted), x)

RECURSIVE SortByTitle(_)
SortByTitle(seq) ==
  IF seq = <<>> THEN <<>>
  ELSE InsertByTitle(SortByTitle(SubSeq(seq, 1, Len(seq) - 1)), seq[Len(seq)])

\* [...indexMap.keys()].sort(), the keys in insertion order being keys
RECURSIVE KeysOf(_)
KeysOf(entries) ==
  IF entries = <<>> THEN <<>> ELSE <<Head(entries).key>> \o KeysOf(Tail(entries))

IndexGet(entries, key) ==
  entries[CHOOSE i \in DOMAIN entries : entries[i].key = key].values

\* indexMap.get(sectionDir)?.push(value) after the has/set of the key
IndexPush(entries, key, value) ==
  IF \E i \in DOMAIN entries : entries[i].key = key
    THEN [i \in DOMAIN entries |->
            IF entries[i].key = key
              THEN [entries[i] EXCEPT !.values = Append(@, value)] ELSE entries[i]]
    ELSE Append(entries, [key |-> key, values |-> <<value>>])

\* the details element of one key of indexMap
IndexDetails(entries, key) ==
  LET values == SortByTitle(IndexGet(entries, key))
  IN  ArrNode("details",
        <<StrNode("summary", titleCase(key)),
          ArrNode("ul", [i \in DOMAIN values |->
            ArrNode("li", <<LinkNode(values[i].title, values[i].link)>>)])>>)

\* dir.replace(`${srcDir}/`, '').split('/')[0] || ''
sectionDir(dir) ==
  LET rel == ReplaceFirst(dir, SrcDir \o <<"/">>, <<>>)
  IN  IF \E i \in DOMAIN rel : rel[i] = "/"
        THEN SubSeq(rel, 1, (CHOOSE i \in DOMAIN rel :
                               rel[i] = "/" /\ \A j \in 1..(i - 1) : rel[j] # "/") - 1)
        ELSE rel

\* the link of a directory in the index
indexLink(dir, a, rt) ==
  a.url \o <<"/">>
  \o (IF a.outDir # <<>> THEN ReplaceFirst(dir, SrcDir \o <<"/">>, <<>>) ELSE dir)
  \o <<"/">> \o (IF rt = "markdown" THEN ReadMeMd ELSE <<>>)

\* What the loop over sources does with one directory after its items:
\* [omitted, content, indexMap].  values.sort(...) of the Index section sorts
\* the array indexMap holds in place.
unitResult(u, dir, a, rt, single, isIndex, entries) ==
  LET hasTypes == u.types # <<>>
      types == IF hasTypes THEN <<StrNode("h2", <<"T","y","p","e","s">>)>> \o u.types
               ELSE u.types
      dirBase == basename(ReplaceFirst(dir, SrcDir, <<>>))
      dirTitle == titleCase(dirBase)
      guides1 == IF ~single
                   THEN <<StrNode("h1", IF u.title # <<>> THEN u.title ELSE dirTitle)>>
                        \o (IF u.desc # <<>> THEN <<StrNode("p", u.desc)>> ELSE <<>>)
                        \o <<IF u.guide.isArr THEN ArrNode("", u.guide.arr)
                             ELSE StrNode("", u.guide.str)>>
                   ELSE <<>>
      orderedKeys == SortStrings(KeysOf(entries))
      guides2 == IF isIndex /\ u.hasIndex /\ entries # <<>>
                   THEN <<StrNode("h2", <<"I","n","d","e","x">>)>>
                        \o [i \in DOMAIN orderedKeys |-> IndexDetails(entries, orderedKeys[i])]
                   ELSE <<>>
  IN  IF Omitted(u.vars # <<>>, hasTypes, u.classes # <<>>, u.functions # <<>>, isIndex)
        THEN [omitted |-> TRUE, content |-> <<>>, indexMap |-> entries]
        ELSE [omitted |-> FALSE,
              content |-> guides1 \o guides2 \o u.vars \o u.classes \o u.functions \o types,
              indexMap |-> IF ~isIndex
                             THEN IndexPush(entries, sectionDir(dir),
                                            [title |-> dirTitle,
                                             link |-> indexLink(dir, a, rt)])
                             ELSE IF u.hasIndex /\ entries # <<>>
                               THEN [i \in DOMAIN entries |->
                                       [entries[i] EXCEPT !.values = SortByTitle(@)]]
                             ELSE entries]

(***************************************************************************)
(* The inputs of getDocs: the arguments and the explained source files.    *)
(***************************************************************************)
Param(name, typeName) == RawParam(name, <<typeName>>, <<>>, FALSE, None)

Typedef(name, typeName, properties) ==
  [RawItem EXCEPT !.kind = "typedef", !.name = name, !.type = Some(<<typeName>>),
                  !.properties = properties]

Example(title, desc, lang, code) ==
  [title |-> title, desc |-> desc, lang |-> lang, code |-> code]

nA == <<"A">>
nB == <<"B">>
nS == <<"S">>
nK == <<"K">>
nExt == <<"E","x","t">>
nSetA == <<"S","e","t","A">>
nT == <<"T">>
nCb == <<"C","b">>
nOpt == <<"O","p","t">>
tObject == <<"O","b","j","e","c","t">>
tString == <<"s","t","r","i","n","g">>
tNumber == <<"n","u","m","b","e","r">>

\* src/ma: type A and a function that uses a type of src/ma, one of src/mb
\* and SetA
FileA ==
  [dir |-> SrcDir \o <<"/","m","a">>, isRes |-> TRUE,
   items |-> <<
     Typedef(nA, tObject, Some(<<Param(<<"b">>, nB), Param(<<"c">>, nB)>>)),
     [RawItem EXCEPT !.kind = "function", !.name = <<"f">>, !.export = TRUE,
        !.description = <<"D","o","e","s"," ","f",".">>,
        !.params = Some(<<Param(<<"x">>, nSetA),
                          Param(<<"y">>, <<"A","r","r","a","y",".","<","E","x","t",">">>)>>),
        !.returns = Some([type |-> <<nA>>, description |-> <<>>])] >>]

\* src/ma: type B that refers back to A, type SetA and the self-referencing S
FileB ==
  [dir |-> SrcDir \o <<"/","m","a">>, isRes |-> TRUE,
   items |-> <<
     Typedef(nB, tObject, Some(<<Param(<<"a">>, nA), Param(<<"d">>, nA)>>)),
     Typedef(nSetA, tString, None),
     Typedef(nS, tObject, Some(<<Param(<<"n">>, nS)>>)) >>]

\* src/mb: type Ext and class K, whose members are a property, a method that
\* takes two K, and a property
FileK ==
  [dir |-> SrcDir \o <<"/","m","b">>, isRes |-> TRUE,
   items |-> <<
     Typedef(nExt, tString, None),
     [RawItem EXCEPT !.kind = "member", !.name = <<"p","1">>, !.memberof = nK,
        !.type = Some(<<tNumber>>)],
     [RawItem EXCEPT !.kind = "class", !.name = nK, !.export = TRUE,
        !.classdesc = <<"C","l","a","s","s"," ","K",".">>,
        !.params = Some(<<Param(<<"o">>, nExt)>>)],
     [RawItem EXCEPT !.kind = "function", !.name = <<"m","1">>, !.memberof = nK,
        !.params = Some(<<Param(<<"k">>, nK), Param(<<"j">>, nK)>>)],
     [RawItem EXCEPT !.kind = "member", !.name = <<"p","2">>, !.memberof = nK,
        !.type = Some(<<tString>>)] >>]

\* src/mc: a file comment, a private function, an undocumented member and a
\* private member of class K
FileHidden ==
  [dir |-> SrcDir \o <<"/","m","c">>, isRes |-> TRUE,
   items |-> <<
     [RawItem EXCEPT !.kind = "file", !.description = <<"t","i","t","l","e",":"," ","G","u","i","d","e","\n","T","e","x","t">>],
     [RawItem EXCEPT !.kind = "function", !.name = <<"h","i","d">>, !.private = TRUE,
        !.export = TRUE, !.params = Some(<<Param(<<"a">>, nA)>>)],
     [RawItem EXCEPT !.kind = "member", !.name = <<"u","n","d">>,
        !.undocumented = TRUE, !.type = Some(<<tString>>)],
     [RawItem EXCEPT !.kind = "member", !.name = <<"p","v">>, !.memberof = nK,
        !.private = TRUE, !.type = Some(<<tString>>)] >>]

\* src/mc: a constant whose example is read from a file and a function with an
\* inline example
FileExamples ==
  [dir |-> SrcDir \o <<"/","m","c">>, isRes |-> TRUE,
   items |-> <<
     [RawItem EXCEPT !.kind = "constant", !.name = <<"v">>, !.export = TRUE,
        !.type = Some(<<tString>>),
        !.examples = Some(<<Example(<<>>, <<>>, <<"j","s">>, <<".","/","v",".","t","x","t">>)>>)],
     [RawItem EXCEPT !.kind = "function", !.name = <<"g">>, !.export = TRUE,
        !.params = Some(<<Param(<<"t">>, nT)>>),
        !.examples = Some(<<Example(<<"U","s","e">>, <<>>, <<"j","s">>,
                                    <<"g","(",")">>)>>)] >>]

\* src/mt: a file of docsTypes that is not one of the result files
FileTypes ==
  [dir |-> SrcDir \o <<"/","m","t">>, isRes |-> FALSE,
   items |-> << Typedef(nT, tObject, Some(<<Param(<<"e">>, nExt)>>)) >>]

\* src/me: the function type Cb, with a description and an example, and the
\* function cb declared with @type {Cb} and nothing else
FileAlias ==
  [dir |-> SrcDir \o <<"/","m","e">>, isRes |-> TRUE, items |-> <<
     [Typedef(nCb, <<"f","u","n","c","t","i","o","n">>, None) EXCEPT
        !.description = <<"C","a","l","l","s"," ","b","a","c","k",".">>,
        !.params = Some(<<Param(<<"c","x">>, tString)>>),
        !.returns = Some([type |-> <<tNumber>>, description |-> <<>>]),
        !.examples = Some(<<Example(<<"U","s","e">>, <<>>, <<"j","s">>, <<"c","b","(",")">>)>>)],
     [RawItem EXCEPT !.kind = "function", !.name = <<"c","b">>, !.export = TRUE,
                     !.type = Some(<<nCb>>)]
  >>]

\* src/me: a documented function that is not exported, whose parameters have
\* the defaults 0, false, null and '', and one parameter without default
FileDefaults ==
  [dir |-> SrcDir \o <<"/","m","e">>, isRes |-> TRUE, items |-> <<
     [RawItem EXCEPT !.kind = "function", !.name = <<"d","f","l","t">>,
        !.params = Some(<<
          RawParam(<<"d","n">>, <<tNumber>>, <<>>, TRUE, Some([t |-> "number", n |-> 0])),
          RawParam(<<"d","b">>, <<<<"b","o","o","l","e","a","n">>>>, <<>>, TRUE,
                   Some([t |-> "boolean", b |-> FALSE])),
          RawParam(<<"d","z">>, <<tObject>>, <<>>, TRUE, Some([t |-> "null"])),
          RawParam(<<"d","e">>, <<tString>>, <<>>, TRUE,
                   Some([t |-> "string", s |-> <<>>])),
          RawParam(<<"d","s">>, <<tString>>, <<>>, TRUE,
                   Some([t |-> "string", s |-> <<"a">>])),
          RawParam(<<"d","u">>, <<tString>>, <<>>, FALSE, None) >>)]
  >>]

\* src: a file of the source directory itself
FileRoot ==
  [dir |-> SrcDir, isRes |-> TRUE, items |-> <<
     [RawItem EXCEPT !.kind = "constant", !.name = <<"r","o","o","t">>, !.export = TRUE,
                     !.type = Some(<<tString>>)]
  >>]

\* src/md: a second type of the name Ext and a second class of the name K
FileAgain ==
  [dir |-> SrcDir \o <<"/","m","d">>, isRes |-> TRUE, items |-> <<
     Typedef(nExt, tNumber, None),
     [RawItem EXCEPT !.kind = "class", !.name = nK, !.export = TRUE,
        !.classdesc = <<"O","t","h","e","r"," ","K",".">>]
  >>]

\* src/mf: the type Opt and the function opt that takes an Opt
FileSlug ==
  [dir |-> SrcDir \o <<"/","m","f">>, isRes |-> TRUE, items |-> <<
     Typedef(nOpt, tObject, Some(<<Param(<<"q">>, tString)>>)),
     [RawItem EXCEPT !.kind = "function", !.name = <<"o","p","t">>,
        !.params = Some(<<Param(<<"o">>, nOpt)>>)]
  >>]

\* src/md: a constant and a method of class K that returns a string and has an
\* example with a title
FileMethod ==
  [dir |-> SrcDir \o <<"/","m","d">>, isRes |-> TRUE, items |-> <<
     [RawItem EXCEPT !.kind = "constant", !.name = <<"w">>, !.export = TRUE,
                     !.type = Some(<<tString>>)],
     [RawItem EXCEPT !.kind = "function", !.name = <<"r","u","n">>, !.memberof = nK,
        !.params = Some(<<Param(<<"n">>, tNumber)>>),
        !.returns = Some([type |-> <<tString>>, description |-> <<>>]),
        !.examples = Some(<<Example(<<"R","u","n">>, <<>>, <<"j","s">>,
                                    <<"r","u","n","(",")">>)>>)]
  >>]

\* src/mg: a file comment that has no description
FileBare ==
  [dir |-> SrcDir \o <<"/","m","g">>, isRes |-> TRUE, items |-> <<
     [RawItem EXCEPT !.kind = "file"]
  >>]

\* src/ma/z: the type Hb, the class Q and a member of Q that has the type Hb
\* and a parameter
FileHandler ==
  [dir |-> SrcDir \o <<"/","m","a","/","z">>, isRes |-> TRUE, items |-> <<
     [Typedef(<<"H","b">>, <<"f","u","n","c","t","i","o","n">>, None) EXCEPT
        !.description = <<"H","a","n","d","l","e","s",".">>,
        !.returns = Some([type |-> <<tNumber>>, description |-> <<>>])],
     [RawItem EXCEPT !.kind = "class", !.name = <<"Q">>, !.export = TRUE,
        !.classdesc = <<"C","l","a","s","s"," ","Q",".">>],
     [RawItem EXCEPT !.kind = "member", !.name = <<"o","n">>, !.memberof = <<"Q">>,
        !.type = Some(<<<<"H","b">>>>),
        !.params = Some(<<Param(<<"h">>, tString)>>)]
  >>]

SourceFiles ==
  <<FileA, FileB, FileK, FileHidden, FileExamples, FileTypes, FileAlias, FileDefaults,
    FileRoot, FileAgain, FileSlug, FileMethod, FileBare, FileHandler>>

\* what jsdoc.explain returns for the index argument
IndexItems ==
  << [RawItem EXCEPT !.kind = "file", !.tags = <<"index">>,
        !.description = <<"t","i","t","l","e",":"," ","D","o","c","s","\n","A","l","l">>] >>

\* what readFile returns for the file of an example
FileText == <<"r","u","n","(",")">>

DocsUrl == <<"/","d">>
OutDir == <<"o","u","t">>

ArgsUniverse ==
  { [url |-> <<>>, outDir |-> <<>>, index |-> FALSE],
    [url |-> DocsUrl, outDir |-> OutDir, index |-> TRUE],
    [url |-> DocsUrl, outDir |-> <<>>, index |-> TRUE],
    [url |-> <<>>, outDir |-> OutDir, index |-> FALSE] }

(***************************************************************************)
(* getDocs as renderMarkdownDocs and renderHtmlDocs call it.               *)
(***************************************************************************)
DocsInit ==
  /\ HtmlIdle
  /\ NavIdle
  /\ args \in ArgsUniverse
  /\ callType \in {"markdown", "html"}
  /\ renderType = callType
  /\ dPc = "files"
  /\ dFiles = <<>>
  /\ jsdocItems = <<>>
  /\ sources = <<>>
  /\ exports = EmptyMap
  /\ docTypes = EmptyMap
  /\ docVars = EmptyMap
  /\ docFunctions = EmptyMap
  /\ docClasses = EmptyMap
  /\ unit = NewUnit(1)
  /\ indexMap = <<>>
  /\ result = <<>>
  /\ dOverflow = FALSE

\* one turn of the loop over sourceFiles, for a .ts file
ExplainFile(k) ==
  /\ dPc = "files"
  /\ Len(dFiles) < MaxFiles
  /\ k \notin Range(dFiles)
  /\ LET file == SourceFiles[k]
         dir == file.dir
         newDocItems ==
           [i \in DOMAIN file.items |->
              [file.items[i] EXCEPT
                 !.dir = dir,
                 !.filenameOut = IF args.outDir # <<>>
                                   THEN ReplaceFirst(dir, SrcDir \o <<"/">>, <<>>)
                                   ELSE <<>>]]
         allDocItems == SourcesGet(sources, dir) \o newDocItems
     IN  /\ dFiles' = Append(dFiles, k)
         /\ jsdocItems' = jsdocItems \o newDocItems
         /\ IF file.isRes
              THEN /\ sources' = SourcesSet(sources, dir, allDocItems)
                   /\ exports' = MapSet(exports, dir, ExportCount(allDocItems))
              ELSE UNCHANGED <<sources, exports>>
  /\ UNCHANGED <<args, renderType, callType, dPc, docTypes, docVars, docFunctions, docClasses, unit,
                 indexMap, result, dOverflow, hvars, nvars>>

\* the index source and jsdocItems.forEach, up to the first directory of sources
Register ==
  /\ dPc = "files"
  /\ LET src == IF args.index THEN SourcesSet(sources, SrcDir, IndexItems) ELSE sources
         reg == RegisterAll(EmptyRegistries, jsdocItems, 1)
     IN  /\ sources' = src
         /\ docTypes' = reg.docTypes
         /\ docVars' = reg.docVars
         /\ docFunctions' = reg.docFunctions
         /\ docClasses' = reg.docClasses
         /\ dPc' = IF src = <<>> THEN "done" ELSE "units"
  /\ UNCHANGED <<args, renderType, callType, dFiles, jsdocItems, exports, unit, indexMap, result,
                 dOverflow, hvars, nvars>>

\* the assignments one turn of the loop over dirDocItems leaves, r being what
\* the turn returned
UnitItemEnd(r) ==
  /\ unit' = r.unit
  /\ dPc' = IF r.err THEN "error" ELSE "units"
  /\ dOverflow' = (dOverflow \/ r.overflow)

\* some example of the explained records names a file, which readFile reads
ReadsFiles ==
  \E i \in DOMAIN jsdocItems :
    /\ jsdocItems[i].examples # None
    /\ \E e \in Range(jsdocItems[i].examples[1]) : StartsWith(e.code, <<".">>)

\* one turn of the loop over dirDocItems; ok is whether readFile finds the file
\* (a call that reads no file has nothing to miss).  No other render call
\* begins during the awaits of the turn: renderType.ref reads the same all
\* through it (UnitItemDuring is the turn during which one begins).
UnitItem(ok) ==
  /\ dPc = "units"
  /\ unit.j <= Len(sources[unit.i].items)
  /\ ok \/ ReadsFiles
  /\ UnitItemEnd(dirDocItem(sources[unit.i].items[unit.j], unit,
                            [docTypes |-> docTypes, docVars |-> docVars,
                             docFunctions |-> docFunctions, docClasses |-> docClasses],
                            [docTypes |-> docTypes, url |-> args.url,
                             renderType |-> renderType, flipAt |-> 0, fileOk |-> ok,
                             fileText |-> FileText,
      highlighted |-> Highlighted(jsdocItems, FileText)],
                            sources[unit.i].dir,
                            sources[unit.i].dir \in DOMAIN exports
                              /\ exports[sources[unit.i].dir] = 1,
                            sources[unit.i].dir = SrcDir /\ args.index))
  /\ UNCHANGED <<args, renderType, callType, dFiles, jsdocItems, sources, exports, docTypes, docVars,
                 docFunctions, docClasses, indexMap, result, hvars, nvars>>

\* the rest of the loop over sources for one directory, after its items
UnitFinish ==
  /\ dPc = "units"
  /\ unit.j > Len(sources[unit.i].items)
  /\ LET dir == sources[unit.i].dir
         single == dir \in DOMAIN exports /\ exports[dir] = 1
         isIndex == dir = SrcDir /\ args.index
         r == unitResult(unit, dir, args, renderType, single, isIndex, indexMap)
     IN  /\ result' = IF r.omitted THEN result
                      ELSE Append(result, [dir |-> dir, content |-> r.content])
         /\ indexMap' = r.indexMap
         /\ IF unit.i < Len(sources)
              THEN unit' = NextUnit(unit) /\ dPc' = "units"
              ELSE unit' = unit /\ dPc' = "done"
  /\ UNCHANGED <<args, renderType, callType, dFiles, jsdocItems, sources, exports, docTypes, docVars,
                 docFunctions, docClasses, dOverflow, hvars, nvars>>

\* renderHtmlDocs: const docs = await getDocs(args), and
\* docsEntries = Object.entries(docs); the loop over docsEntries is NavPage
DocsReturn ==
  /\ dPc = "done"
  /\ callType = "html"
  /\ nPc = "idle"
  /\ nDocs' = result
  /\ nPc' = "pages"
  /\ UNCHANGED <<nIdx, nItems, navigationSlugs, navigationMap, navigation, nPassed, hvars,
                 dvars>>

DocsNext ==
  \/ \E k \in DOMAIN SourceFiles : ExplainFile(k)
  \/ Register
  \/ \E ok \in BOOLEAN : UnitItem(ok)
  \/ UnitFinish
  \/ DocsReturn
  \/ NavPage

SpecDocs == DocsInit /\ [][DocsNext]_vars

(***************************************************************************)
(* Two render calls at a time.  renderMarkdownDocs and renderHtmlDocs      *)
(* begin with renderType.ref = 'markdown' and renderType.ref = 'html', and *)
(* renderType is one object of the module.  Every other variable of a call *)
(* is local to it, so what a second call does to the first is this         *)
(* assignment, made at one of the awaits of the first call.                *)
(***************************************************************************)
\* one turn of the loop over dirDocItems during which the other render call
\* begins: the turn awaits readFile, codeToHtml and every nested call, the
\* other call runs during the at-th of these awaits and assigns its format to
\* renderType.ref, which the rest of the turn reads
UnitItemDuring(ok, at) ==
  /\ dPc = "units"
  /\ unit.j <= Len(sources[unit.i].items)
  /\ ok \/ ReadsFiles
  /\ renderType = callType
  /\ LET r == dirDocItem(sources[unit.i].items[unit.j], unit,
                         [docTypes |-> docTypes, docVars |-> docVars,
                          docFunctions |-> docFunctions, docClasses |-> docClasses],
                         [docTypes |-> docTypes, url |-> args.url,
                          renderType |-> renderType, flipAt |-> at, fileOk |-> ok,
                          fileText |-> FileText,
      highlighted |-> Highlighted(jsdocItems, FileText)],
                         sources[unit.i].dir,
                         sources[unit.i].dir \in DOMAIN exports
                           /\ exports[sources[unit.i].dir] = 1,
                         sources[unit.i].dir = SrcDir /\ args.index)
     IN  /\ at <= r.awaits
         /\ UnitItemEnd(r)
  /\ renderType' = OtherFormat(callType)
  /\ UNCHANGED <<args, callType, dFiles, jsdocItems, sources, exports, docTypes, docVars,
                 docFunctions, docClasses, indexMap, result, hvars, nvars>>

\* the first statement of a render call of the other format, run while this
\* call awaits outside the turns of the loop over dirDocItems: glob, readFile
\* and jsdoc.explain before the loop over sources, and, after the loop, the
\* await of getDocs itself and mkdir and writeFile in the render function.
\* From the last await of one turn to the first await of a later turn getDocs
\* runs without a pause, the rest of the loop over sources included, so no
\* other call begins there (UnitItemDuring is a call that begins during the
\* awaits of a turn).
OtherCall(format) ==
  /\ dPc \in {"files", "done"}
  /\ format # callType
  /\ renderType # format
  /\ renderType' = format
  /\ UNCHANGED <<args, callType, dPc, dFiles, jsdocItems, sources, exports, docTypes, docVars,
                 docFunctions, docClasses, unit, indexMap, result, dOverflow, hvars, nvars>>

TwoCallsNext ==
  \/ DocsNext
  \/ \E format \in {"markdown", "html"} : OtherCall(format)
  \/ \E ok \in BOOLEAN : \E at \in 1..MaxAwaits : UnitItemDuring(ok, at)

SpecTwoCalls == DocsInit /\ [][TwoCallsNext]_vars

(***************************************************************************)
(* Claims about getDocs.                                                   *)
(***************************************************************************)
Done == dPc = "done"
ResultDirs == { result[i].dir : i \in DOMAIN result }
TypesTitle == <<"T","y","p","e","s">>
PropertiesTitle == <<"P","r","o","p","e","r","t","i","e","s">>
MethodsTitle == <<"M","e","t","h","o","d","s">>

\* the link nodes of a content tree, at any depth
RECURSIVE LinksOf(_)
LinksOf(nodes) ==
  IF nodes = <<>> THEN <<>>
  ELSE LET n == Head(nodes)
       IN  (IF n.tag = "a" /\ n.link # <<>> THEN <<n>> ELSE <<>>)
           \o (IF n.kind = "arr" THEN LinksOf(n.arr) ELSE <<>>)
           \o LinksOf(Tail(nodes))

\* the untagged texts inside the code elements that hold a resolved type
\* expression (a code element that is not inside a strong element)
RECURSIVE TypeTexts(_, _)
TypeTexts(nodes, inCode) ==
  IF nodes = <<>> THEN <<>>
  ELSE LET n == Head(nodes)
       IN  (IF inCode /\ n.kind = "str" /\ n.tag = "" THEN <<n.str>> ELSE <<>>)
           \o (IF n.kind = "arr" /\ n.tag # "strong"
                 THEN TypeTexts(n.arr, inCode \/ n.tag = "code") ELSE <<>>)
           \o TypeTexts(Tail(nodes), inCode)

\* the links to the registry entity `name` in a content tree
LinksTo(content, name) ==
  SelectSeq(LinksOf(content), LAMBDA n : n.str = name)

\* the top-level headings of a content tree whose text is `name`
SectionsOf(content, name) ==
  SelectSeq(content, LAMBDA n : n.kind = "str" /\ IsHeadingTag(n.tag) /\ n.str = name)

\* the heading-index entries getHtml builds for a content tree
IndexEntries(content) ==
  FlatHeadings(getHtmlEach(content, "identity", "", EmptyHtml).headings)

\* the part of a unit's content after its "Types" heading
TypesSection(content) ==
  LET at == { i \in DOMAIN content : content[i] = StrNode("h2", TypesTitle) }
  IN  IF at = {} THEN <<>> ELSE SubSeq(content, Max(at) + 1, Len(content))

\* the type expressions of an entity that getTypeContent resolves
TypeExpressions(info) ==
  LET ofParams(opt) == IF opt = None THEN {}
                       ELSE UNION { Range(opt[1][i].type) : i \in DOMAIN opt[1] }
      ofReturn(opt) == IF opt = None THEN {} ELSE Range(opt[1].type)
  IN  (IF info.members = None THEN Range(info.type) ELSE {})
      \cup (IF info.augments = None THEN {} ELSE Range(info.augments[1]))
      \cup ofParams(info.props) \cup ofParams(info.params)
      \cup ofReturn(info.returns) \cup ofReturn(info.yields)

\* the registry names the entity `a` refers to
RefsOf(a) ==
  { n \in DOMAIN docTypes :
      \E t \in TypeExpressions(docTypes[a]) : n \in Range(WordRuns(t, <<>>)) }

\* the registry names reached from `a` in at most k steps of references
RECURSIVE ReachedFrom(_, _)
ReachedFrom(set, k) ==
  IF k = 0 THEN set
  ELSE ReachedFrom(set \cup UNION { RefsOf(n) : n \in set }, k - 1)

\* `a` refers to itself, directly or through other types
OnCycle(a) == a \in ReachedFrom(RefsOf(a), Cardinality(DOMAIN docTypes))

\* the type `a` is a typedef record of the i-th unit or is linked from its content
UsedInUnit(i, a) ==
  \/ LinksTo(result[i].content, a) # <<>>
  \/ \E it \in Range(SourcesGet(sources, result[i].dir)) :
       it.kind = "typedef" /\ it.name = a /\ ~it.private /\ ~it.undocumented

\* C3: Materialize-once.  For every registry entity of the unit's own directory
\* that is referenced two or more times in the unit, the unit's content holds
\* the section of the entity exactly once and the heading index of the page has
\* exactly one entry for it.
C3_MaterializedOnce ==
  Done =>
    \A i \in DOMAIN result : \A a \in DOMAIN docTypes :
      (docTypes[a].dir = result[i].dir /\ Len(LinksTo(result[i].content, a)) >= 2)
        => /\ Len(SectionsOf(result[i].content, a)) = 1
           /\ Len(SelectSeq(IndexEntries(result[i].content), LAMBDA e : e.title = a)) = 1

\* C4: Circular safety.  The recursion of getContent and getTypeContent stays
\* within MaxDepth nested calls, and every type of the unit's directory that
\* refers to itself, directly or through other types, and that the unit uses
\* has exactly one section in the unit's Types section.
C4_CircularTypesOnce ==
  /\ ~dOverflow
  /\ Done =>
       \A i \in DOMAIN result : \A a \in DOMAIN docTypes :
         (docTypes[a].dir = result[i].dir /\ OnCycle(a) /\ UsedInUnit(i, a))
           => Len(SectionsOf(TypesSection(result[i].content), a)) = 1

\* A and B refer to each other, S refers to itself, and each has its one section
C4_Witness ==
  /\ Done
  /\ {nA, nB, nS} \subseteq DOMAIN docTypes
  /\ \E i \in DOMAIN result :
       /\ nA \in RefsOf(nB) /\ nB \in RefsOf(nA) /\ nS \in RefsOf(nS)
       /\ \A a \in {nA, nB, nS} :
            /\ docTypes[a].dir = result[i].dir
            /\ Len(SectionsOf(TypesSection(result[i].content), a)) = 1

\* the depth getDocs gives the classes, functions and variables of a directory
UnitDepth(dir) == IF dir \in DOMAIN exports /\ exports[dir] = 1 THEN 0 ELSE 1

\* the positions of the sections of the members of class k in a unit's content
MemberPositions(content, k, depth) ==
  { p \in DOMAIN content :
      /\ content[p].kind = "str" /\ content[p].tag = HTag(depth + 3)
      /\ \E m \in DOMAIN docClasses[k].members[1] :
           docClasses[k].members[1][m].name = content[p].str }

\* the positions of the "Properties" and "Methods" headings of a class
GroupPositions(content, depth) ==
  { p \in DOMAIN content :
      /\ content[p].kind = "str" /\ content[p].tag = HTag(depth + 2)
      /\ content[p].str \in {PropertiesTitle, MethodsTitle} }

\* the member of class k whose section starts at position p
MemberAt(content, k, p) ==
  LET ms == docClasses[k].members[1]
  IN  ms[CHOOSE m \in DOMAIN ms : ms[m].name = content[p].str]

\* a class of the unit's directory that the unit documents
ClassesOf(i) ==
  { k \in DOMAIN docClasses :
      /\ docClasses[k].dir = result[i].dir
      /\ docClasses[k].members # None
      /\ SectionsOf(result[i].content, k) # <<>> }

\* C5: Member grouping.  In the section of a class every property member lies
\* under the "Properties" heading and every method member under the "Methods"
\* heading, the nearest group heading before the member's section.
C5_MembersUnderTheirGroup ==
  Done =>
    \A i \in DOMAIN result : \A k \in ClassesOf(i) :
      LET content == result[i].content
          depth == UnitDepth(result[i].dir)
          groups == GroupPositions(content, depth)
      IN  \A p \in MemberPositions(content, k, depth) :
            LET before == { q \in groups : q < p }
            IN  /\ before # {}
                /\ content[Max(before)].str =
                     (IF MemberAt(content, k, p).params # None THEN MethodsTitle
                      ELSE PropertiesTitle)

\* a directory of sources none of whose records is documented content
NoDocumentedContent(items) ==
  \A j \in DOMAIN items :
    items[j].private \/ items[j].undocumented \/ items[j].kind = "file"

\* C6: Omission.  A directory whose records are all private, undocumented or
\* file comments has no entry in the result unless it is the index unit, and
\* the index unit has its entry whenever index is given.
C6_EmptyDirectoriesOmitted ==
  Done =>
    /\ \A s \in DOMAIN sources :
         (NoDocumentedContent(sources[s].items) /\ ~(sources[s].dir = SrcDir /\ args.index))
           => sources[s].dir \notin ResultDirs
    /\ args.index => SrcDir \in ResultDirs

\* src/mc holds only the file comment and the two hidden records and is left
\* out, next to a directory that is emitted
C6_Witness ==
  /\ Done
  /\ \E s \in DOMAIN sources :
       /\ sources[s].items # <<>>
       /\ NoDocumentedContent(sources[s].items)
       /\ sources[s].dir # SrcDir
       /\ sources[s].dir \notin ResultDirs
  /\ \E i \in DOMAIN result : result[i].dir # SrcDir

\* the record whose turn of the loop over dirDocItems ended last
LastItem == sources[unit.i].items[unit.j - 1]

\* some example of the record names a file, which normalizeExamples reads
NamesFile(item) ==
  /\ item.examples # None
  /\ \E e \in Range(item.examples[1]) : StartsWith(e.code, <<".">>)

\* C7: A failed file read of an example does not end the getDocs call with an
\* error: the turn of a record that has an example whose code names a file
\* never rejects the call, whether readFile finds the file or not.
C7_FailedReadDoesNotAbort ==
  ~(dPc = "error" /\ unit.j > 1 /\ NamesFile(LastItem))

\* C9: Link targets.  Every link to a registry entity in a unit's content is
\* {url}/{outDir or dir}/{README.md in Markdown, nothing in HTML}#{id} when the
\* entity's directory differs from the unit's, and #{id} otherwise.
C9_LinkTargets ==
  Done =>
    \A i \in DOMAIN result :
      LET links == LinksOf(result[i].content)
      IN  \A l \in DOMAIN links :
            links[l].str \in DOMAIN docTypes =>
              LET t == docTypes[links[l].str]
                  page == IF renderType = "markdown" THEN ReadMeMd ELSE <<>>
                  where == IF t.outDir # <<>> THEN t.outDir ELSE t.dir
              IN  IF t.dir # result[i].dir
                    THEN links[l].link =
                           args.url \o <<"/">> \o where \o <<"/">> \o page \o <<"#">> \o t.id
                    ELSE links[l].link = <<"#">> \o t.id

\* a unit links a type of another directory and a type of its own
C9_Witness ==
  /\ Done
  /\ \E i \in DOMAIN result :
       LET links == LinksOf(result[i].content)
       IN  /\ \E l \in DOMAIN links :
                /\ links[l].str \in DOMAIN docTypes
                /\ docTypes[links[l].str].dir # result[i].dir
                /\ Len(links[l].link) > Len(docTypes[links[l].str].id) + 1
           /\ \E l \in DOMAIN links :
                /\ links[l].str \in DOMAIN docTypes
                /\ docTypes[links[l].str].dir = result[i].dir
                /\ links[l].link = <<"#">> \o docTypes[links[l].str].id

\* C10: Every identifier of a resolved type expression that is not a built-in
\* keyword and names an entity of the type registry is rendered as a link: no
\* such identifier is left in the plain text of the expression.
C10_RegisteredNamesLinked ==
  Done =>
    \A i \in DOMAIN result :
      LET texts == TypeTexts(result[i].content, FALSE)
      IN  \A x \in DOMAIN texts :
            \A w \in Range(WordRuns(texts[x], <<>>)) :
              ~(w \in DOMAIN docTypes /\ w \notin Keywords)

(***************************************************************************)
(* Claims about the registries and the units of getDocs.                   *)
(***************************************************************************)
\* the registry-building pass of getDocs is over
RegistryPassed == dPc \in {"units", "done", "error"}

\* the raw records of the directory of the i-th unit
UnitItems(i) == SourcesGet(sources, result[i].dir)

\* the record has access 'private' or is undocumented
IsHidden(item) == item.private \/ item.undocumented

\* the names of the entities the i-th unit documents at the depth the policy
\* sets: its documented variables, functions and classes (a type is always a
\* subsection of the Types section)
UnitEntities(i) ==
  { UnitItems(i)[k].name : k \in
      { j \in DOMAIN UnitItems(i) :
          /\ ~IsHidden(UnitItems(i)[j])
          /\ UnitItems(i)[j].memberof = <<>>
          /\ UnitItems(i)[j].kind \in {"constant", "member", "function", "class"} } }

\* the h1 nodes of a content tree, at any depth
TitleNodes(content) == SelectSeq(NodesOf(content), LAMBDA n : n.tag = "h1")

\* C12: Depth policy.  Every unit that documents more than one entity has
\* exactly one h1 node in its content tree, the directory or page title at its
\* top, and none of its entities is rendered as an h1.
C12_DepthPolicy ==
  Done =>
    \A i \in DOMAIN result :
      Cardinality(UnitEntities(i)) > 1 =>
        /\ Len(TitleNodes(result[i].content)) = 1
        /\ result[i].content[1].tag = "h1"
        /\ \A n \in UnitEntities(i) :
             StrNode("h1", n) \notin Range(NodesOf(result[i].content))

\* the entries of the four registries and the members of the classes
RegistryEntries ==
  LET maps == <<docTypes, docVars, docFunctions, docClasses>>
      entries == UNION { { maps[m][n] : n \in DOMAIN maps[m] } : m \in DOMAIN maps }
  IN  entries
      \cup UNION { IF e.members = None THEN {} ELSE Range(e.members[1]) : e \in entries }

\* the names only hidden records carry
HiddenNames ==
  { jsdocItems[i].name : i \in { j \in DOMAIN jsdocItems : IsHidden(jsdocItems[j]) } }
  \ { jsdocItems[i].name : i \in { j \in DOMAIN jsdocItems : ~IsHidden(jsdocItems[j]) } }

\* C13: no entry of docTypes, docVars, docFunctions or docClasses, no member of
\* a class and no placeholder class was created from a record that is private
\* or undocumented, and no such record contributes content to a unit.
C13_HiddenRecordsStayOut ==
  RegistryPassed =>
    /\ \A e \in RegistryEntries :
         /\ e.ref # None
         /\ ~IsHidden(jsdocItems[e.ref[1] \div 2])
         /\ e.name \notin HiddenNames
    /\ HiddenNames \cap (DOMAIN docTypes \cup DOMAIN docVars \cup DOMAIN docFunctions
                         \cup DOMAIN docClasses) = {}
    /\ \A i \in DOMAIN result :
         \A k \in DOMAIN NodesOf(result[i].content) :
           NodesOf(result[i].content)[k].str \notin HiddenNames

\* a private function and an undocumented member were explained, the registries
\* are built and the unit of their directory is emitted
C13_Witness ==
  /\ Done
  /\ \E i \in DOMAIN jsdocItems : jsdocItems[i].private /\ jsdocItems[i].kind = "function"
  /\ \E i \in DOMAIN jsdocItems : jsdocItems[i].undocumented
  /\ \E i \in DOMAIN jsdocItems : jsdocItems[i].private /\ jsdocItems[i].memberof # <<>>
  /\ \E i \in DOMAIN result :
       /\ \E k \in DOMAIN UnitItems(i) : IsHidden(UnitItems(i)[k])
       /\ \E k \in DOMAIN UnitItems(i) : UnitItems(i)[k].name \in DOMAIN docFunctions
  /\ HiddenNames # {}

\* the top-level details elements of a content whose summary is the title of key
DetailsOf(content, key) ==
  SelectSeq(content, LAMBDA n : /\ n.tag = "details" /\ n.kind = "arr" /\ n.arr # <<>>
                                /\ n.arr[1] = StrNode("summary", titleCase(key)))

\* C14: with an index comment that carries the @index tag, the Index section
\* of the index unit has exactly one link for every other emitted unit, in the
\* group of the first path segment of the unit's directory, whatever the order
\* in which the directories were found.
C14_IndexLinksEveryUnit ==
  (Done /\ args.index) =>
    \E x \in DOMAIN result :
      /\ result[x].dir = SrcDir
      /\ \A i \in DOMAIN result :
           result[i].dir # SrcDir =>
             /\ Len(SelectSeq(LinksOf(result[x].content),
                              LAMBDA n : n.link = indexLink(result[i].dir, args, renderType))) = 1
             /\ Len(SelectSeq(LinksOf(DetailsOf(result[x].content, sectionDir(result[i].dir))),
                              LAMBDA n : n.link = indexLink(result[i].dir, args, renderType))) = 1

\* the entities getDocs stores for the member records of class `name`, from the
\* i-th record on, in the order of the records
RECURSIVE MembersFrom(_, _)
MembersFrom(name, i) ==
  IF i > Len(jsdocItems) THEN <<>>
  ELSE (IF /\ ~IsHidden(jsdocItems[i])
           /\ jsdocItems[i].memberof = name
           /\ jsdocItems[i].kind \in {"member", "function"}
          THEN <<getInfo(jsdocItems[i],
                         IF jsdocItems[i].kind = "function" THEN "function" ELSE "typedef",
                         Some(2 * i))>>
          ELSE <<>>)
       \o MembersFrom(name, i + 1)

\* the positions of the declaration records of classes
ClassRecords ==
  { i \in DOMAIN jsdocItems : jsdocItems[i].kind = "class" /\ ~IsHidden(jsdocItems[i]) }

\* C18: Class accumulation does not depend on the order of arrival.  The class
\* entity the registry holds has the name, id, dir, description, params and
\* augments of its declaration record and the entities of all its member
\* records, in their order, whether they came before or after the declaration.
C18_ClassAccumulation ==
  RegistryPassed =>
    \A d \in ClassRecords :
      LET decl == getInfo(jsdocItems[d], "class", Some(2 * d))
      IN  (\A e \in ClassRecords : jsdocItems[e].name = decl.name => e = d) =>
            /\ decl.name \in DOMAIN docClasses
            /\ \A f \in {"name", "id", "dir", "description", "params", "augments"} :
                 docClasses[decl.name][f] = decl[f]
            /\ docClasses[decl.name].members = Some(MembersFrom(decl.name, 1))
            /\ docTypes[decl.name] = docClasses[decl.name]

\* class K is registered with its three members, one of which arrived before
\* the declaration of K and two after it
C18_Witness ==
  /\ RegistryPassed
  /\ nK \in DOMAIN docClasses
  /\ \E d \in ClassRecords :
       /\ jsdocItems[d].name = nK
       /\ \E m \in 1..(d - 1) : jsdocItems[m].memberof = nK
       /\ \E m \in (d + 1)..Len(jsdocItems) : jsdocItems[m].memberof = nK
  /\ Len(docClasses[nK].members[1]) = 3
  /\ docClasses[nK].description # <<>>

\* the records of the i-th unit that declare a function with @type naming an
\* entry of docTypes
AliasedFunctions(i) ==
  { k \in DOMAIN UnitItems(i) :
      /\ UnitItems(i)[k].kind = "function" /\ ~IsHidden(UnitItems(i)[k])
      /\ UnitItems(i)[k].memberof = <<>>
      /\ UnitItems(i)[k].type # None
      /\ UnitItems(i)[k].name \in DOMAIN docFunctions
      /\ docFunctions[UnitItems(i)[k].name].type # <<>>
      /\ docFunctions[UnitItems(i)[k].name].type[1] \in DOMAIN docTypes }

\* C19: a function that names a type alias of the registry is rendered with
\* the parameters and returns of the alias; a description or examples the
\* function record defines are the function's, and a description or examples
\* only the alias defines are the alias's.
C19_AliasMerge ==
  Done =>
    \A i \in DOMAIN result : \A k \in AliasedFunctions(i) :
      LET item == UnitItems(i)[k]
          alias == docTypes[docFunctions[item.name].type[1]]
          merged == mergedInfo(docFunctions[item.name], "function", docTypes)
          description == IF item.description # <<>> THEN item.description
                         ELSE alias.description
          heading == StrNode(HTag(UnitDepth(result[i].dir) + 1), item.name)
      IN  /\ merged.params = alias.params
          /\ merged.returns = alias.returns
          /\ merged.description = description
          /\ merged.examples = IF item.examples # None THEN item.examples
                               ELSE alias.examples
          /\ description # <<>> =>
               \E h \in DOMAIN result[i].content :
                 /\ result[i].content[h] = heading
                 /\ h + 2 <= Len(result[i].content)
                 /\ result[i].content[h + 2] = StrNode("p", description)

\* the entries of the Properties and Parameters lists of a content tree for the
\* parameter `name`
ParamEntries(content, name) ==
  SelectSeq(NodesOf(content),
            LAMBDA n : /\ n.tag \in {"li", "div"} /\ n.kind = "arr"
                       /\ StrNode("code", name) \in Range(NodesOf(n.arr)))

\* the "Default:" detail of an entry, for the default `str`
DefaultDetail(str) ==
  ArrNode("p", <<StrNode("", <<"D","e","f","a","u","l","t",":"," ">>), StrNode("code", str)>>)

HasDefaultDetail(entry) ==
  \E k \in DOMAIN NodesOf(entry.arr) :
    /\ NodesOf(entry.arr)[k].tag = "p" /\ NodesOf(entry.arr)[k].kind = "arr"
    /\ NodesOf(entry.arr)[k].arr # <<>>
    /\ NodesOf(entry.arr)[k].arr[1] = StrNode("", <<"D","e","f","a","u","l","t",":"," ">>)

\* the records of the i-th unit that declare a function with its own parameters
PlainFunctions(i) ==
  { k \in DOMAIN UnitItems(i) :
      /\ UnitItems(i)[k].kind = "function" /\ ~IsHidden(UnitItems(i)[k])
      /\ UnitItems(i)[k].memberof = <<>>
      /\ UnitItems(i)[k].type = None /\ UnitItems(i)[k].params # None
      /\ UnitItems(i)[k].name \in DOMAIN docFunctions }

\* C20: for every parameter whose raw record defines a default value, 0, false,
\* null and the empty string included, the default is recorded as its string
\* form and the rendered entry has a "Default:" detail with that string; an
\* entry has no "Default:" detail exactly when the raw default is undefined.
C20_DefaultsRendered ==
  Done =>
    \A i \in DOMAIN result : \A k \in PlainFunctions(i) :
      LET raw == UnitItems(i)[k].params[1]
          stored == docFunctions[UnitItems(i)[k].name].params[1]
      IN  \A p \in DOMAIN raw :
            /\ stored[p].defaults = IF raw[p].defaultvalue # None
                                      THEN Some(StringOf(raw[p].defaultvalue[1]))
                                      ELSE None
            /\ ParamEntries(result[i].content, raw[p].name) # <<>>
            /\ \A e \in Range(ParamEntries(result[i].content, raw[p].name)) :
                 IF raw[p].defaultvalue # None
                   THEN DefaultDetail(StringOf(raw[p].defaultvalue[1]))
                          \in Range(NodesOf(e.arr))
                   ELSE ~HasDefaultDetail(e)

(***************************************************************************)
(* Claims about the sections of one entity.                                *)
(***************************************************************************)
\* a paragraph that begins with the strong label: the "Type:" or "Augments:" line
IsLine(n, label) ==
  n.tag = "p" /\ n.kind = "arr" /\ n.arr # <<>> /\ n.arr[1] = StrNode("strong", label)

IsList(n) == n.tag \in {"ul", "dl"} /\ n.kind = "arr"

\* the numbers of the sections of an entity, from the heading to the examples
Slots == 1..18

\* the sections that are a heading and the node under it: Properties,
\* Parameters, Returns, Yields and Examples
PairSlots == {8, 10, 12, 14, 17}

\* the sections getTypeContent pushes without a condition for this kind
Mandatory(s, kind) ==
  \/ s = 1
  \/ kind = "class" /\ s \in {3, 4}
  \/ kind = "function" /\ s = 4
  \/ kind = "typedef" /\ s = 6

ExamplesHeading(depth) == StrNode(HTag(depth + 2), <<"E","x","a","m","p","l","e","s">>)

\* the two titles the loop over the members of a class pushes
MemberTitleNodes(depth) ==
  { StrNode(HTag(depth + 2), PropertiesTitle), StrNode(HTag(depth + 2), MethodsTitle) }

\* node n, which follows node `prev`, is the s-th of the sections of an entity
\* of this kind at this depth: 1 heading, 2 class description, 3 "Constructor",
\* 4 signature, 5 description, 6 "Type:", 7 "Augments:", 8-9 Properties,
\* 10-11 Parameters, 12-13 Returns, 14-15 Yields, 17-18 Examples; 16, the
\* members of a class, is more than one node (MembersOrdered)
SlotMatches(s, n, prev, kind, depth) ==
  CASE s = 1 -> n.kind = "str" /\ n.tag = HTag(depth + 1)
    [] s = 2 -> kind = "class" /\ n.tag = "p" /\ n.kind = "str"
    [] s = 3 -> kind = "class" /\ n = StrNode(HTag(depth + 2), <<"C","o","n","s","t","r","u","c","t","o","r">>)
    [] s = 4 -> /\ kind \in {"function", "class"}
                /\ n.tag = "p" /\ n.kind = "arr" /\ Len(n.arr) = 1
                /\ n.arr[1].tag = "strong" /\ n.arr[1].kind = "arr"
    [] s = 5 -> n.tag = "p" /\ n.kind = "str"
    [] s = 6 -> kind = "typedef" /\ IsLine(n, <<"T","y","p","e",":">>)
    [] s = 7 -> IsLine(n, <<"A","u","g","m","e","n","t","s",":">>)
    [] s = 8 -> n = StrNode(HTag(depth + 2), PropertiesTitle)
    [] s = 9 -> IsList(n) /\ prev = StrNode(HTag(depth + 2), PropertiesTitle)
    [] s = 10 -> n = StrNode(HTag(depth + (IF kind = "class" THEN 3 ELSE 2)), <<"P","a","r","a","m","e","t","e","r","s">>)
    [] s = 11 -> IsList(n) /\ prev.kind = "str" /\ prev.str = <<"P","a","r","a","m","e","t","e","r","s">>
    [] s = 12 -> n = StrNode(HTag(depth + 2), <<"R","e","t","u","r","n","s">>)
    [] s = 13 -> n.tag = "p" /\ n.kind = "arr" /\ prev = StrNode(HTag(depth + 2), <<"R","e","t","u","r","n","s">>)
    [] s = 14 -> n = StrNode(HTag(depth + 2), <<"Y","i","e","l","d","s">>)
    [] s = 15 -> n.tag = "p" /\ n.kind = "arr" /\ prev = StrNode(HTag(depth + 2), <<"Y","i","e","l","d","s">>)
    [] s = 17 -> n = ExamplesHeading(depth)
    [] s = 18 -> n.tag = "" /\ prev = ExamplesHeading(depth)
    [] OTHER -> FALSE

RECURSIVE InSectionOrder(_, _, _, _, _)

\* `part` is what the loop over the members of a class at this depth pushes:
\* the titles "Properties" and "Methods", each at most once and one of them
\* first, and the members, each an entity two levels deeper with the sections
\* of a function or of a type in their order; a member with a signature comes
\* after the title "Methods", a member with a "Type:" line after "Properties"
MembersOrdered(part, depth) ==
  LET titles == { i \in DOMAIN part : part[i] \in MemberTitleNodes(depth) }
      starts == { i \in DOMAIN part : part[i].kind = "str" /\ part[i].tag = HTag(depth + 3) }
      cuts == titles \cup starts \cup {Len(part) + 1}
      member(i) == SubSeq(part, i, Min({ j \in cuts : j > i }) - 1)
      titled(i, title) ==
        \E t \in titles : t < i /\ part[t] = StrNode(HTag(depth + 2), title)
  IN  /\ part # <<>> => 1 \in titles
      /\ \A i \in titles : \A j \in titles : part[i] = part[j] => i = j
      /\ \A i \in titles : i + 1 \in cuts
      /\ \A i \in starts :
           \/ /\ InSectionOrder(member(i), 1, 1, "function", depth + 2)
              /\ titled(i, MethodsTitle)
           \/ /\ InSectionOrder(member(i), 1, 1, "typedef", depth + 2)
              /\ titled(i, PropertiesTitle)

\* the nodes of `content` from the i-th on are the sections s, s + 1, ... of an
\* entity of this kind in this order: a section is there at most once, a
\* section the kind always has is there, a heading has its node under it, the
\* members of a class stand between Yields and Examples, and no node is left
InSectionOrder(content, i, s, kind, depth) ==
  IF s \notin Slots THEN i > Len(content)
  ELSE IF s = 16
    THEN IF kind = "class"
           THEN LET ends == { k \in i..Len(content) : content[k] = ExamplesHeading(depth) }
                             \cup {Len(content) + 1}
                IN  /\ MembersOrdered(SubSeq(content, i, Min(ends) - 1), depth)
                    /\ InSectionOrder(content, Min(ends), 17, kind, depth)
           ELSE InSectionOrder(content, i, 17, kind, depth)
  ELSE IF i > Len(content) THEN \A t \in s..18 : ~Mandatory(t, kind)
  ELSE IF s \in PairSlots
    THEN IF /\ SlotMatches(s, content[i], content[i], kind, depth)
            /\ i + 1 <= Len(content)
            /\ SlotMatches(s + 1, content[i + 1], content[i], kind, depth)
           THEN InSectionOrder(content, i + 2, s + 2, kind, depth)
           ELSE InSectionOrder(content, i, s + 2, kind, depth)
  ELSE IF SlotMatches(s, content[i], content[i], kind, depth)
    THEN InSectionOrder(content, i + 1, s + 1, kind, depth)
  ELSE IF Mandatory(s, kind) THEN FALSE
  ELSE InSectionOrder(content, i, s + 1, kind, depth)

\* the positions at which the content of an entity begins in one of the arrays
\* vars, classes, functions and types of a unit
EntityStarts(list, depth) ==
  { i \in DOMAIN list : list[i].kind = "str" /\ list[i].tag = HTag(depth + 1) }

\* the content of the entity that begins at position i
EntityAt(list, depth, i) ==
  SubSeq(list, i, Min({ j \in EntityStarts(list, depth) \cup {Len(list) + 1} : j > i }) - 1)

\* every entity of the array has its sections in the fixed order
SectionsOrdered(list, kind, depth) ==
  /\ list # <<>> => 1 \in EntityStarts(list, depth)
  /\ \A i \in EntityStarts(list, depth) :
       InSectionOrder(EntityAt(list, depth, i), 1, 1, kind, depth)

\* the unit getDocs is building
Building == dPc = "units" /\ unit.i \in DOMAIN sources

\* C21: getTypeContent appends the sections of an entity in the fixed order:
\* heading; class description and "Constructor"; signature; description;
\* "Type:"; "Augments:"; Properties; Parameters; Returns; Yields; class
\* members; Examples.  Only the sections of the kind appear and none is out
\* of this order, in every array of the unit and after every step of its
\* construction.
C21_SectionOrder ==
  Building =>
    /\ SectionsOrdered(unit.vars, "typedef", UnitDepth(sources[unit.i].dir))
    /\ SectionsOrdered(unit.classes, "class", UnitDepth(sources[unit.i].dir))
    /\ SectionsOrdered(unit.functions, "function", UnitDepth(sources[unit.i].dir))
    /\ SectionsOrdered(unit.types, "typedef", 2)

\* a unit that holds a class with its description, the constructor with its
\* parameters, a property under the title "Properties" with its "Type:" line
\* and a method under the title "Methods" with its signature and parameters,
\* and a type materialized for it
C21_Witness ==
  /\ Building
  /\ LET depth == UnitDepth(sources[unit.i].dir)
         list == unit.classes
     IN  /\ \E i \in EntityStarts(list, depth) :
                /\ i + 1 <= Len(list)
                /\ SlotMatches(2, list[i + 1], list[i], "class", depth)
                /\ InSectionOrder(EntityAt(list, depth, i), 1, 1, "class", depth)
         /\ \E i \in DOMAIN list :
              list[i] = StrNode(HTag(depth + 3), <<"P","a","r","a","m","e","t","e","r","s">>)
         /\ \E i \in DOMAIN list :
              /\ i + 2 <= Len(list)
              /\ list[i] = StrNode(HTag(depth + 2), PropertiesTitle)
              /\ SlotMatches(1, list[i + 1], list[i], "typedef", depth + 2)
              /\ \E k \in (i + 2)..Len(list) :
                   SlotMatches(6, list[k], list[k - 1], "typedef", depth + 2)
         /\ \E i \in DOMAIN list :
              /\ i + 3 <= Len(list)
              /\ list[i] = StrNode(HTag(depth + 2), MethodsTitle)
              /\ SlotMatches(1, list[i + 1], list[i], "function", depth + 2)
              /\ SlotMatches(4, list[i + 2], list[i + 1], "function", depth + 2)
              /\ SlotMatches(10, list[i + 3], list[i + 2], "function", depth + 2)
  /\ unit.types # <<>>

(***************************************************************************)
(* Claims about what one unit shares with the other units.                 *)
(***************************************************************************)
\* the loop over the records of one directory, run on variables of its own
\* with every example file found: [unit, err, overflow]
RECURSIVE ItemsAlone(_, _, _)
ItemsAlone(r, items, dir) ==
  IF r.err \/ r.unit.j > Len(items) THEN r
  ELSE ItemsAlone(dirDocItem(items[r.unit.j], r.unit,
                             [docTypes |-> docTypes, docVars |-> docVars,
                              docFunctions |-> docFunctions, docClasses |-> docClasses],
                             [docTypes |-> docTypes, url |-> args.url,
                              renderType |-> renderType, flipAt |-> 0,
                              fileOk |-> TRUE,
                              fileText |-> FileText,
      highlighted |-> Highlighted(jsdocItems, FileText)],
                             dir, UnitDepth(dir) = 0, FALSE),
                  items, dir)

\* the content of the unit of `dir` when no other unit is built before it
ContentAlone(dir) ==
  unitResult(ItemsAlone([unit |-> NewUnit(1), err |-> FALSE, overflow |-> FALSE],
                        SourcesGet(sources, dir), dir).unit,
             dir, args, renderType, UnitDepth(dir) = 0, FALSE, <<>>).content

IsIndexUnit(dir) == dir = SrcDir /\ args.index

\* the opening tags of the elements of a page that carry an id
IdOpens(output) == SelectSeq(output, LAMBDA q : q.k = "open" /\ HasAttr(q.attrs, "id"))

\* the texts of the elements of a page that carry an id, in order: the text
\* that follows the opening tag
IdTexts(output) ==
  LET at == SelectSeq([i \in DOMAIN output |-> i],
                      LAMBDA i : output[i].k = "open" /\ HasAttr(output[i].attrs, "id"))
  IN  [k \in DOMAIN at |-> output[at[k] + 1].str]

\* the ids of one page are those of a walk that starts with no id taken: the
\* first heading of a slug has the slug as its id
PageIdsStartEmpty(output) ==
  \A k \in DOMAIN IdOpens(output) :
    (\A l \in 1..(k - 1) : getId(IdTexts(output)[l]) # getId(IdTexts(output)[k])
                           \/ IdOpens(output)[l].tag = "h1")
      => Attr(IdOpens(output)[k].attrs, "id") = getId(IdTexts(output)[k])

\* C24: Per-unit state does not leak.  The content tree of every unit other
\* than the index unit is the one getDocs builds for its directory when no
\* other unit is built before it, and the heading ids and the heading index of
\* its page are those of a walk that starts with no id taken and no entry.
C24_NoLeakAcrossUnits ==
  Done =>
    /\ \A i \in DOMAIN result :
         ~IsIndexUnit(result[i].dir) => result[i].content = ContentAlone(result[i].dir)
    /\ \A k \in DOMAIN nItems :
         ~IsIndexUnit(nDocs[k].dir) =>
           /\ PageIdsStartEmpty(nItems[k].output)
           /\ \A e \in Range(FlatHeadings(nItems[k].headings)) :
                \E q \in Range(IdOpens(nItems[k].output)) :
                  q.tag = e.tag /\ Attr(q.attrs, "id") = e.id

\* two pages were built and rendered, the second of which has a type that the
\* first referenced and headings of the same text as the first
C24_Witness ==
  /\ Done
  /\ Len(nItems) = 2
  /\ \E a \in DOMAIN docTypes :
       /\ Len(LinksTo(result[1].content, a)) > 0
       /\ Len(SectionsOf(TypesSection(result[2].content), a)) = 1
  /\ \E x \in Range(IdTexts(nItems[1].output)) : x \in Range(IdTexts(nItems[2].output))
  /\ nItems[2].headings # <<>>

(***************************************************************************)
(* Claims about records of the same name.                                  *)
(***************************************************************************)
\* the positions of the records getDocs registers under `name` in docTypes,
\* docVars, docFunctions and docClasses
TypeRecords(name) ==
  { i \in DOMAIN jsdocItems :
      /\ ~IsHidden(jsdocItems[i]) /\ jsdocItems[i].name = name
      /\ \/ jsdocItems[i].kind = "typedef" /\ jsdocItems[i].type # None
         \/ jsdocItems[i].kind = "class" }

VarRecords(name) ==
  { i \in DOMAIN jsdocItems :
      /\ ~IsHidden(jsdocItems[i]) /\ jsdocItems[i].name = name
      /\ \/ jsdocItems[i].kind = "constant"
         \/ jsdocItems[i].kind = "member" /\ jsdocItems[i].memberof = <<>> }

FunctionRecords(name) ==
  { i \in DOMAIN jsdocItems :
      /\ ~IsHidden(jsdocItems[i]) /\ jsdocItems[i].name = name
      /\ jsdocItems[i].kind = "function" /\ jsdocItems[i].memberof = <<>> }

ClassRecordsOf(name) == { i \in ClassRecords : jsdocItems[i].name = name }

\* the entry has the fields of the i-th record, the member list apart
CarriesRecord(entry, i) ==
  IF jsdocItems[i].kind = "class"
    THEN \A f \in {"name", "id", "dir", "description", "desc", "params", "augments"} :
           entry[f] = getInfo(jsdocItems[i], "class", Some(2 * i))[f]
    ELSE entry = getInfo(jsdocItems[i],
                         IF jsdocItems[i].kind = "function" THEN "function" ELSE "typedef",
                         Some(2 * i))

\* C25: the entry of a registry for a name carries the fields of the last
\* record registered under that name; the member list of a class alone is
\* accumulated.
C25_LastRecordWins ==
  RegistryPassed =>
    /\ \A n \in DOMAIN docTypes : CarriesRecord(docTypes[n], Max(TypeRecords(n)))
    /\ \A n \in DOMAIN docVars : CarriesRecord(docVars[n], Max(VarRecords(n)))
    /\ \A n \in DOMAIN docFunctions : CarriesRecord(docFunctions[n], Max(FunctionRecords(n)))
    /\ \A n \in DOMAIN docClasses :
         ClassRecordsOf(n) # {} => CarriesRecord(docClasses[n], Max(ClassRecordsOf(n)))

(***************************************************************************)
(* Claims about the pages renderHtmlDocs renders from the units.           *)
(***************************************************************************)
\* the ids of the headings of the Types section of a page whose text is `name`
TypesHeadingIds(output, name) ==
  { Attr(IdOpens(output)[k].attrs, "id") :
      k \in { j \in DOMAIN IdOpens(output) :
                /\ IdOpens(output)[j].tag = "h3"
                /\ IdTexts(output)[j] = name
                /\ \E l \in 1..(j - 1) : /\ IdOpens(output)[l].tag = "h2"
                                         /\ IdTexts(output)[l] = TypesTitle } }

\* the same-page links of a content tree to entities the tree materializes in
\* its Types section
SamePageLinks(content) ==
  SelectSeq(LinksOf(content),
            LAMBDA n : /\ n.link # <<>> /\ n.link[1] = "#"
                       /\ Len(SectionsOf(TypesSection(content), n.str)) > 0)

\* C26: every same-page link #id that getContent emits for an entity
\* materialized in the Types section of the unit targets that section: the id
\* getHtml gives the heading of the entity in the Types section is the id of
\* the link, also when an earlier heading of the page has the same slug.
C26_SamePageLinksHitTypes ==
  \A k \in DOMAIN nItems :
    \A l \in DOMAIN SamePageLinks(nDocs[k].content) :
      TypesHeadingIds(nItems[k].output, SamePageLinks(nDocs[k].content)[l].str)
        = {Tail(SamePageLinks(nDocs[k].content)[l].link)}

(***************************************************************************)
(* Claims about two render calls at a time.                                *)
(***************************************************************************)
\* an entry of a Properties or Parameters list in Markdown form
IsMarkdownEntry(n) ==
  n.tag = "li" /\ n.kind = "arr" /\ n.arr # <<>> /\ n.arr[1].tag = "strong"

\* a link to another page
IsPageLink(n) == n.tag = "a" /\ n.link # <<>> /\ n.link[1] # "#"

\* the node is of the Markdown form: no dl, div, dt or dd of a list, links to
\* pages name README.md, and no highlighted example
InMarkdownForm(n) ==
  /\ n.tag \notin {"dl", "dt", "dd", "div"}
  /\ IsPageLink(n) => Occurrences(n.link, ReadMeMd) # {}
  /\ n.kind = "str" => ~StartsWith(n.str, <<"<","p","r","e">>)

\* the node is of the HTML form: no li of a Properties or Parameters list, no
\* link names README.md, and no fenced example
InHtmlForm(n) ==
  /\ ~IsMarkdownEntry(n)
  /\ IsPageLink(n) => Occurrences(n.link, ReadMeMd) = {}
  /\ n.kind = "str" => Occurrences(n.str, Fence) = {}

\* C27: a renderMarkdownDocs call builds all of its units in Markdown form and
\* a renderHtmlDocs call in HTML form, also when a call of the other format is
\* started while it awaits: the format of a call is never changed by another
\* call.
C27_FormatOfTheCall ==
  Done =>
    \A i \in DOMAIN result : \A k \in DOMAIN NodesOf(result[i].content) :
      IF callType = "markdown" THEN InMarkdownForm(NodesOf(result[i].content)[k])
      ELSE InHtmlForm(NodesOf(result[i].content)[k])

(***************************************************************************)
(* Claims about the Types section of a unit.                               *)
(***************************************************************************)
\* the positions of the section heading of the type `a` in a unit's content
TypePos(content, a) == { j \in DOMAIN content : content[j] = StrNode("h3", a) }

\* the positions of the "Types" heading in a unit's content
TypesAt(content) == { j \in DOMAIN content : content[j] = StrNode("h2", TypesTitle) }

\* the registry names getContent finds in the type expressions of `a`
DirectRefs(a) ==
  { n \in DOMAIN docTypes :
      \E t \in TypeExpressions(docTypes[a]) : n \in Range(TypeMatches(t)) }

\* the first record of the i-th unit that the loop over its records does not
\* skip, when it is a type: the unit's arrays are empty when it is resolved
FirstTypes(i) ==
  { UnitItems(i)[k].name : k \in
      { j \in DOMAIN UnitItems(i) :
          /\ UnitItems(i)[j].kind = "typedef"
          /\ ~IsHidden(UnitItems(i)[j])
          /\ \A h \in 1..(j - 1) :
               IsHidden(UnitItems(i)[h]) \/ UnitItems(i)[h].kind = "file" } }

\* the "Types" heading comes once, before every type section, and nothing but
\* type sections follows it
TypesSectionLast(content) ==
  /\ Cardinality(TypesAt(content)) <= 1
  /\ \A a \in DOMAIN docTypes : \A j \in TypePos(content, a) :
       \E t \in TypesAt(content) : t < j
  /\ \A t \in TypesAt(content) :
       /\ t < Len(content)
       /\ content[t + 1].tag = "h3"
       /\ \A j \in (t + 1)..Len(content) : content[j].tag \notin {"h1", "h2"}

\* a type that another type refers to comes before it, unless the other type
\* was reached while the first was being resolved
RefsComeFirst(content) ==
  \A a \in DOMAIN docTypes : \A b \in DirectRefs(a) \ {a} :
    \A p \in TypePos(content, a) : \A q \in TypePos(content, b) :
      q > p => a \in ReachedFrom({b}, Cardinality(DOMAIN docTypes))

\* the types that the first type of the unit refers to come before it
FirstUseComesFirst(i) ==
  \A a \in FirstTypes(i) : \A b \in DirectRefs(a) \ {a} :
    \A p \in TypePos(result[i].content, a) : \A q \in TypePos(result[i].content, b) :
      q < p

\* C28: Types section.  In the content of every unit the "Types" h2 heading
\* comes before every type section and the section is the last part of the
\* content, after the variables, classes and functions; a type that was
\* materialized because another type of the unit referred to it first comes
\* before the type that referred to it.
C28_TypesInPostOrder ==
  Done =>
    \A i \in DOMAIN result :
      /\ TypesSectionLast(result[i].content)
      /\ RefsComeFirst(result[i].content)
      /\ FirstUseComesFirst(i)

\* a unit whose first type materialized another type that refers back to it,
\* the section of the other type coming first, after the section of a function
C28_Witness ==
  /\ Done
  /\ \E i \in DOMAIN result : \E a \in FirstTypes(i) : \E b \in DirectRefs(a) \ {a} :
       /\ a \in DirectRefs(b)
       /\ TypePos(result[i].content, a) # {}
       /\ TypePos(result[i].content, b) # {}
       /\ Max(TypePos(result[i].content, b)) < Min(TypePos(result[i].content, a))
       /\ \E t \in TypesAt(result[i].content) : \E j \in 1..(t - 1) :
            result[i].content[j].tag = HTag(UnitDepth(result[i].dir) + 1)

(***************************************************************************)
(* Claims about the completeness of the navigation forest.                 *)
(***************************************************************************)
\* the slugs of the entries of the getDocs result with a non-empty relative
\* directory
PagesInForest ==
  { <<"/">> \o ReplaceFirst(nDocs[i].dir, SrcDir, <<>>) \o <<"/">> :
      i \in { j \in DOMAIN nDocs : ReplaceFirst(nDocs[j].dir, SrcDir, <<>>) # <<>> } }

\* the positions in the forest, at any depth, of the item of the slug
ForestPlaces(slug) ==
  { i \in DOMAIN ForestItems(navigation) :
      ~ForestItems(navigation)[i].undefined /\ ForestItems(navigation)[i].link = slug }

\* C29: Navigation completeness.  Whatever the directories of the pages are,
\* every page with a non-empty relative directory is exactly once in the
\* navigation forest, as a top-level item or as a child of one item, no entry
\* of the forest is undefined, and the output filter of every page is handed
\* this same forest.
C29_ForestHoldsEveryPage ==
  nPc \in {"write", "done"} =>
    /\ NavSlugs = PagesInForest
    /\ \A slug \in PagesInForest : Cardinality(ForestPlaces(slug)) = 1
    /\ \A i \in DOMAIN ForestItems(navigation) : ~ForestItems(navigation)[i].undefined
    /\ Len(ForestItems(navigation)) = Cardinality(PagesInForest)
    /\ \A k \in DOMAIN nPassed :
         /\ nPassed[k].path = nItems[k].path
         /\ nPassed[k].navigation = navigation
    /\ nPc = "done" => Len(nPassed) = Len(nDocs)

\* three pages nested in one another and the page of the source directory,
\* all written: the deeper pages were looked up after they had been deleted
C29_Witness ==
  /\ nPc = "done"
  /\ Len(nPassed) >= 3
  /\ \E a \in PagesInForest : \E b \in PagesInForest \ {a} : \E c \in PagesInForest \ {a, b} :
       /\ StartsWith(b, a)
       /\ StartsWith(c, b)
       /\ \E i \in DOMAIN navigation : navigation[i].link = a /\ Len(navigation[i].children) = 2

(***************************************************************************)
(* Claims about the levels of the headings getTypeContent builds.          *)
(***************************************************************************)
\* the tags `h${n}` that getTypeContent can compute
LevelTags == { HTag(n) : n \in 1..9 }

\* the nodes, at any depth, of the arrays of the unit that is being built and
\* of the content of the units that are built
BuiltNodes ==
  Range(NodesOf(unit.vars)) \cup Range(NodesOf(unit.classes))
  \cup Range(NodesOf(unit.functions)) \cup Range(NodesOf(unit.types))
  \cup UNION { Range(NodesOf(result[i].content)) : i \in DOMAIN result }

\* C30: Heading levels.  Every heading tag that getTypeContent and
\* normalizeExamples put in the content of a unit is one of h1 to h6, for the
\* entities at depth 0 or 1, the types at depth 2 and the members of a class
\* at the depth of the class plus 2, the "Parameters" heading of a constructor
\* and the titles of the examples of a member included.
C30_HeadingLevels ==
  \A n \in BuiltNodes : n.tag \in LevelTags => n.tag \in DOMAIN headingInfo

\* a unit of more than one entity whose class has a method with an example:
\* the method is an h4, its "Parameters", "Returns" and "Examples" are h5, the
\* title of the example is an h6
C30_Witness ==
  /\ Done
  /\ \E i \in DOMAIN result :
       /\ UnitDepth(result[i].dir) = 1
       /\ \E k \in DOMAIN docClasses :
            StrNode("h2", k) \in Range(result[i].content)
       /\ StrNode("h4", <<"r","u","n">>) \in Range(result[i].content)
       /\ StrNode("h5", <<"P","a","r","a","m","e","t","e","r","s">>) \in Range(result[i].content)
       /\ StrNode("h5", <<"R","e","t","u","r","n","s">>) \in Range(result[i].content)
       /\ \E n \in Range(NodesOf(result[i].content)) : n.tag = "h6"

============================================================================
